---- MODULE Spec2Model ----
(***************************************************************************)
(* Model of the Linux thread control protocol of frida-gum                 *)
(* (gum/backend-linux/gumprocess-linux.c): gum_process_modify_thread, the  *)
(* helper gum_do_modify_thread, the ack channel, the register transfer     *)
(* with its regset latch, and the dumpability counter.                     *)
(*                                                                         *)
(* Each session s is one gum_process_modify_thread call made by its own    *)
(* caller thread against a thread other than the caller; the helper of     *)
(* session s is the clone()d child running gum_do_modify_thread.  Every    *)
(* action is one kernel call together with the local code that follows it  *)
(* up to the next kernel call.                                             *)
(***************************************************************************)
EXTENDS Integers, Sequences, FiniteSets, TLC

\* ---- bounds ----
MaxCalls == 2
MaxFaults == 1
MaxFuncCalls == 2
MaxBatches == 2
MaxDeflectors == 2

Sessions == {1, 2}
Threads == {1, 2}
Archs == {"x86_64", "mips"}
\* every architecture the register conversions are written for
CpuArchs == {"x86", "x86_64", "arm_legacy_mcontext", "arm", "arm64", "mips"}

\* ---- enum _GumModifyThreadAck ----
GUM_ACK_READY == 1
GUM_ACK_READ_CONTEXT == 2
GUM_ACK_MODIFIED_CONTEXT == 3
GUM_ACK_WROTE_CONTEXT == 4
GUM_ACK_FAILED_TO_ATTACH == 5
GUM_ACK_FAILED_TO_WAIT == 6
GUM_ACK_FAILED_TO_STOP == 7
GUM_ACK_FAILED_TO_READ == 8
GUM_ACK_FAILED_TO_WRITE == 9
GUM_ACK_FAILED_TO_DETACH == 10

\* ---- errno values of the kernel calls the protocol makes ----
EPERM == 1
ESRCH == 3
EIO == 5
ECHILD == 10
EAGAIN == 11

PtraceErrnos == {EPERM, ESRCH, EIO}
CloneErrnos == {EPERM, EAGAIN}

VARIABLES
  arch,                   \* the architecture the code was built for
  calls,                  \* number of modify_thread calls started so far
  ppc,                    \* [Sessions -> parent position in gum_process_modify_thread]
  hpc,                    \* [Sessions -> helper position in gum_do_modify_thread]
  thread_id,              \* ctx.thread_id of each session
  cb,                     \* what the callback (func) of each call did, once it ran
  child,                  \* the value gum_libc_clone returned to the parent
  success,                \* the parent's local `success`
  cpu_context,            \* ctx.cpu_context, shared by parent and helper
  toHelper,               \* bytes written to fd[0], not yet read from fd[1]
  toParent,               \* bytes written to fd[1], not yet read from fd[0]
  resources,              \* per session: stack page, TLS page, fds still held
  attached,               \* the helper's local `attached`
  regs,                   \* the helper's local `regs`
  regs_read,              \* what gum_get_regs last left in `regs`
  hack,                   \* the ack the helper is about to put
  gum_is_regset_supported,
  gum_dumpable_lock,      \* owner of G_LOCK (gum_dumpable), 0 when free
  gum_dumpable_refcount,
  gum_dumpable_previous,
  dumpable,               \* the kernel's per-process dumpable flag
  dumpable_before,        \* the flag as it was when the counter last left zero
  ptracer,                \* the kernel's PR_SET_PTRACER value
  tracer,                 \* [Threads -> session whose helper is ptrace-attached, or 0]
  stopped,                \* [Threads -> whether the thread is in ptrace-stop]
  tregs,                  \* [Threads -> the thread's register file]
  trace,                  \* per session: the events of the current call, in order:
                          \* "read"/"write" when gum_get_regs/gum_set_regs return,
                          \* "cb_start"/"cb_end", "detach" when a detach is requested
  failed,                 \* per session: the steps of the current call that failed
  faults                  \* number of kernel calls made to fail so far

\* ---- gum_process_modify_thread against the calling thread ----
VARIABLES
  has_getcontext,         \* whether the getcontext/setcontext block is compiled in
  spc,                    \* position of the calling thread in the block
  cpu,                    \* the live registers of the calling thread
  uc,                     \* the local `uc`
  modified,               \* the local `volatile gboolean modified`
  self_context,           \* the block's local `cpu_context`
  self_success,           \* the local `success` of that call
  func_calls              \* how many times func was invoked, up to MaxFuncCalls

selfVars == <<has_getcontext, spc, cpu, uc, modified, self_context,
              self_success, func_calls>>

\* ---- the register conversions, applied to one context ----
VARIABLES
  conv_in,                \* the GumCpuContext handed to the conversions
  conv_regs,              \* a GumRegs buffer
  conv_uc,                \* a ucontext_t
  conv_out_regs,          \* the GumCpuContext parsed back from conv_regs
  conv_out_uc,            \* the GumCpuContext parsed back from conv_uc
  conv_regs_step,         \* 0 nothing done, 1 unparsed, 2 parsed back
  conv_uc_step            \* likewise for the saved context

convVars == <<conv_in, conv_regs, conv_uc, conv_out_regs, conv_out_uc,
              conv_regs_step, conv_uc_step>>

\* ---- the code allocator (gumcodeallocator.c) ----
VARIABLES
  rwx_supported,          \* gum_query_is_rwx_supported ()
  slice_size,             \* allocator->slice_size
  slices_per_page,        \* allocator->slices_per_page
  pages,                  \* every GumCodePages allocated so far, by number
  n_batches,              \* how many GumCodePages were allocated so far
  free_slices,            \* allocator->free_slices, head first
  dirty_pages,            \* allocator->dirty_pages
  uncommitted_pages,      \* allocator->uncommitted_pages
  held,                   \* the slices callers got and have not freed
  result,                 \* what the last allocation returned, and for what
  plain_allocs,           \* alloc_slice calls so far if nothing else was
                          \* called yet, else -1
  handed_out,             \* the batches a slice was handed out from since
                          \* the last commit
  commits,                \* what the last call did if it was a commit
  crashed                 \* the process died on an invalid memory access

allocVars == <<rwx_supported, slice_size, slices_per_page, pages, n_batches,
               free_slices, dirty_pages, uncommitted_pages, held, result,
               plain_allocs, handed_out, commits, crashed>>

\* ---- the code deflector (gumcodeallocator.c) ----
VARIABLES
  have_arm,               \* whether the build defines HAVE_ARM
  elf,                    \* [RangeIds -> whether the range starts with ELFMAG]
  cave_initial,           \* [RangeIds -> the bytes at base + 8 at the start]
  cave_bytes,             \* [RangeIds -> the bytes at base + 8 now]
  cave_prot,              \* [RangeIds -> protection of the cave's page]
  thunk_prot,             \* [RangeIds -> protection of the thunk page of the
                          \* dispatcher in the range's cave, "none" if no
                          \* such page is allocated]
  dispatchers,            \* allocator->dispatchers, head first
  dpc,                    \* where the deflector call in progress is
  dcall,                  \* the arguments and locals of that call
  dresult,                \* what the last alloc_deflector returned
  dfreed,                 \* what the last gum_code_deflector_free did
  teardowns               \* what gum_code_allocator_free did to the dispatchers

deflVars == <<have_arm, elf, cave_initial, cave_bytes, cave_prot, thunk_prot,
              dispatchers, dpc, dcall, dresult, dfreed, teardowns>>

otherVars == <<selfVars, convVars, allocVars, deflVars>>

vars == <<otherVars, arch, calls, ppc, hpc, thread_id, cb, child, success,
          cpu_context, toHelper, toParent, resources, attached, regs, regs_read,
          hack,
          gum_is_regset_supported, gum_dumpable_lock, gum_dumpable_refcount,
          gum_dumpable_previous, dumpable, dumpable_before, ptracer, tracer,
          stopped, tregs, trace, failed, faults>>

parentVars == <<ppc, child, success, resources>>
helperVars == <<hpc, attached, regs, regs_read, hack>>
chanVars == <<toHelper, toParent>>
dumpVars == <<gum_dumpable_lock, gum_dumpable_refcount, gum_dumpable_previous,
              dumpable, dumpable_before>>
kernelVars == <<tracer, stopped, tregs>>
callVars == <<arch, otherVars, calls, thread_id, cb>>

histVars == <<trace, failed, faults>>
\* everything gum_process_modify_thread's other-thread branch works on
protocolVars == <<calls, thread_id, cb, parentVars, helperVars, cpu_context,
                  chanVars, gum_is_regset_supported, dumpVars, ptracer,
                  kernelVars, histVars>>

\* ---- register values ----
\* The register file the kernel transfers (GumRegs) has the program counter
\* (pc), the general-purpose registers (gp), the status register (flags:
\* eflags, cpsr, pstate, cp0_status) and registers that no GumCpuContext
\* represents (extra, e.g. the segment registers and orig_rax).  GumCpuContext
\* has pc and gp everywhere, flags (cpsr, nzcv) and the vector registers (v)
\* on ARM and ARM64 only; a field an architecture does not have is held at 0.
\* The pc values of thread t are 2t and 2t+1, so a value tells which thread
\* it came from.
PcValues == {2 * t + b : t \in Threads, b \in {0, 1}}
RegsValues == [pc : PcValues, gp : {0, 1, 2}, flags : {0, 1}, extra : {0, 1}]
ContextValues == [pc : PcValues, gp : {0, 1, 2}, flags : {0, 1}, v : {0, 1}]
\* what a buffer the kernel did not fill may hold
GarbageRegs == {[pc |-> 2, gp |-> 0, flags |-> 0, extra |-> 0],
                [pc |-> 5, gp |-> 2, flags |-> 1, extra |-> 1]}
InitialRegs(t) == [pc |-> 2 * t, gp |-> t, flags |-> 1, extra |-> t % 2]
\* a GumRegs / GumCpuContext local that holds nothing of interest
NoRegs == [pc |-> 2, gp |-> 0, flags |-> 0, extra |-> 0]
NoContext == [pc |-> 2, gp |-> 0, flags |-> 0, v |-> 0]
OwnerOf(pcv) == pcv \div 2

Callbacks == {"bump", "keep"}
\* func (thread_id, &cpu_context, user_data): mutates the context in place
ApplyCallback(kind, c) ==
  IF kind = "bump" THEN [c EXCEPT !.pc = 2 * (c.pc \div 2) + (1 - (c.pc % 2))]
  ELSE c

\* gum_parse_regs: ARM copies cpsr and clears v; ARM64 sets nzcv to 0 and
\* clears v; the others copy pc and the general-purpose registers
gum_parse_regs(r, c) ==
  IF arch \in {"arm", "arm_legacy_mcontext"}
  THEN [pc |-> r.pc, gp |-> r.gp, flags |-> r.flags, v |-> 0]
  ELSE IF arch = "arm64"
  THEN [pc |-> r.pc, gp |-> r.gp, flags |-> 0, v |-> 0]
  ELSE [c EXCEPT !.pc = r.pc, !.gp = r.gp]

\* Mutant of gum_unparse_regs: every architecture writes the status register
\* from the context
gum_unparse_regs_with_flags(c, r) ==
  [r EXCEPT !.pc = c.pc, !.gp = c.gp, !.flags = c.flags]

\* gum_unparse_regs: writes the fields it has into the buffer in place; only
\* ARM writes the status register, no architecture writes v
gum_unparse_regs(c, r) ==
  IF arch \in {"arm", "arm_legacy_mcontext"}
  THEN [r EXCEPT !.pc = c.pc, !.gp = c.gp, !.flags = c.flags]
  ELSE [r EXCEPT !.pc = c.pc, !.gp = c.gp]

\* gum_libc_syscall_4: what the raw system call hands back for kernel error e.
\* Only the MIPS branch converts the kernel's error flag to -1; the others
\* return the kernel's result register, which holds -errno.
gum_libc_syscall_4(e) == IF arch = "mips" THEN -1 ELSE -e

\* Mutant of gum_await_ack: the byte read is not compared with the expected ack
gum_await_ack_any(value, expected_ack) == TRUE

\* gum_await_ack, given the byte that gum_libc_read delivered
gum_await_ack(value, expected_ack) == value = expected_ack

ChildPid(s) == 100 + s

Log(s, e) == [trace EXCEPT ![s] = Append(@, e)]
\* A kernel call fails.  A failure that the state forces (a request on a
\* thread that is not the caller's stopped tracee) always happens; any other
\* failure is one the environment may produce, at most MaxFaults times.
Fault(s, step, forced) ==
  /\ failed' = [failed EXCEPT ![s] = @ \cup {step}]
  /\ IF forced THEN faults' = faults
     ELSE faults < MaxFaults /\ faults' = faults + 1
NoFault == UNCHANGED <<failed, faults>>

\* a slice that is no slice: the NULL GumCodeSlice, the NULL GumAddressSpec
NULL == [null |-> TRUE]

\* a GumCodePages that was not allocated yet
NoPages == [live |-> FALSE, ref_count |-> 0, data |-> 0]

\* an allocator that gum_code_allocator_init was not called on
AllocIdle ==
  /\ rwx_supported = TRUE
  /\ slice_size = 0
  /\ slices_per_page = 0
  /\ pages = [b \in 1..MaxBatches |-> NoPages]
  /\ n_batches = 0
  /\ free_slices = <<>>
  /\ dirty_pages = {}
  /\ uncommitted_pages = {}
  /\ held = {}
  /\ result = NULL
  /\ plain_allocs = 0
  /\ handed_out = {}
  /\ commits = NULL
  /\ crashed = FALSE

\* an allocator no deflector was asked of, in a process with no range that
\* could hold a dispatcher
DeflIdle ==
  /\ have_arm = FALSE
  /\ elf = [r \in 1..2 |-> FALSE]
  /\ cave_initial = [r \in 1..2 |-> "zero"]
  /\ cave_bytes = [r \in 1..2 |-> "zero"]
  /\ cave_prot = [r \in 1..2 |-> "rx"]
  /\ thunk_prot = [r \in 1..2 |-> "none"]
  /\ dispatchers = <<>>
  /\ dpc = "idle"
  /\ dcall = NULL
  /\ dresult = NULL
  /\ dfreed = NULL
  /\ teardowns = NULL

\* no conversion is being exercised
ConvIdle ==
  /\ conv_in = NoContext
  /\ conv_regs = NoRegs
  /\ conv_uc = NoRegs
  /\ conv_out_regs = NoContext
  /\ conv_out_uc = NoContext
  /\ conv_regs_step = 0
  /\ conv_uc_step = 0

\* no call against the calling thread is under way
SelfIdle ==
  /\ has_getcontext = TRUE
  /\ spc = "idle"
  /\ cpu = [pc |-> 2, gp |-> 0, flags |-> 0, extra |-> 0]
  /\ uc = NoRegs
  /\ modified = FALSE
  /\ self_context = NoContext
  /\ self_success = FALSE
  /\ func_calls = 0

InitCommon ==
  /\ calls = 0
  /\ ppc = [s \in Sessions |-> "idle"]
  /\ hpc = [s \in Sessions |-> "none"]
  /\ thread_id = [s \in Sessions |-> 1]
  /\ cb = [s \in Sessions |-> "none"]
  /\ child = [s \in Sessions |-> 0]
  /\ success = [s \in Sessions |-> FALSE]
  /\ cpu_context = [s \in Sessions |-> NoContext]
  /\ toHelper = [s \in Sessions |-> <<>>]
  /\ toParent = [s \in Sessions |-> <<>>]
  /\ resources = [s \in Sessions |-> {}]
  /\ attached = [s \in Sessions |-> FALSE]
  /\ regs = [s \in Sessions |-> NoRegs]
  /\ regs_read = [s \in Sessions |-> NoRegs]
  /\ hack = [s \in Sessions |-> 0]
  /\ gum_is_regset_supported = TRUE
  /\ gum_dumpable_lock = 0
  /\ gum_dumpable_refcount = 0
  /\ gum_dumpable_previous = 0
  /\ ptracer = 0
  /\ tracer = [t \in Threads |-> 0]
  /\ stopped = [t \in Threads |-> FALSE]
  /\ tregs = [t \in Threads |-> InitialRegs(t)]
  /\ trace = [s \in Sessions |-> <<>>]
  /\ failed = [s \in Sessions |-> {}]
  /\ faults = 0

\* The protocol on every architecture, in a process that starts out not
\* dumpable (the case in which the dumpability code has to act)
Init ==
  /\ InitCommon
  /\ arch \in Archs
  /\ dumpable = 0
  /\ dumpable_before = 0
  /\ SelfIdle
  /\ ConvIdle
  /\ AllocIdle
  /\ DeflIdle

\* The same program under every initial value of the dumpable flag
\* (0 SUID_DUMP_DISABLE, 1 SUID_DUMP_USER, 2 SUID_DUMP_ROOT); the architecture
\* plays no part in the dumpability code
InitDump ==
  /\ InitCommon
  /\ arch = "x86_64"
  /\ dumpable \in {0, 1, 2}
  /\ dumpable_before = dumpable
  /\ SelfIdle
  /\ ConvIdle
  /\ AllocIdle
  /\ DeflIdle

(***************************************************************************)
(* The parent: gum_process_modify_thread, other-thread branch              *)
(***************************************************************************)

\* entry, socketpair, page allocation (lines 772-785).  The caller threads
\* are interchangeable, and so are the target threads, so the first call is
\* taken to be session 1's against thread 1.
Call(s) ==
  /\ ppc[s] = "idle"
  /\ calls < MaxCalls
  /\ s = 1 \/ calls > 0
  /\ calls' = calls + 1
  /\ \E t \in Threads, ok \in BOOLEAN :
       /\ calls = 0 => t = 1
       /\ thread_id' = [thread_id EXCEPT ![s] = t]
       /\ ppc' = [ppc EXCEPT ![s] = IF ok THEN "clone" ELSE "returned"]
       /\ resources' = [resources EXCEPT ![s] =
                          IF ok THEN {"fd0", "fd1", "stack", "tls"} ELSE {}]
       /\ IF ok THEN NoFault ELSE Fault(s, "socketpair", FALSE)
  /\ UNCHANGED <<arch, otherVars, cb, child, success, helperVars, cpu_context, chanVars,
                 gum_is_regset_supported, dumpVars, ptracer, kernelVars, trace>>

\* child = gum_libc_clone (...); if (child == -1) goto beach (lines 848-857)
Clone(s) ==
  /\ ppc[s] = "clone"
  /\ \/ /\ child' = [child EXCEPT ![s] = ChildPid(s)]
        /\ hpc' = [hpc EXCEPT ![s] = "await_ready"]
        /\ NoFault
     \/ /\ \E e \in CloneErrnos :
             child' = [child EXCEPT ![s] = gum_libc_syscall_4(e)]
        /\ hpc' = hpc
        /\ Fault(s, "clone", FALSE)
  /\ ppc' = [ppc EXCEPT ![s] = IF child'[s] = -1 THEN "beach" ELSE "acq_lock"]
  /\ UNCHANGED <<callVars, success, resources, cpu_context, chanVars, attached,
                 regs, regs_read, hack, gum_is_regset_supported, dumpVars, ptracer,
                 kernelVars, trace>>

\* gum_acquire_dumpability: G_LOCK; ++gum_dumpable_refcount (lines 2127-2129)
AcquireLock(s) ==
  /\ ppc[s] = "acq_lock"
  /\ gum_dumpable_lock = 0
  /\ gum_dumpable_lock' = s
  /\ gum_dumpable_refcount' = gum_dumpable_refcount + 1
  /\ dumpable_before' = IF gum_dumpable_refcount = 0 THEN dumpable
                                                    ELSE dumpable_before
  /\ ppc' = [ppc EXCEPT ![s] = IF gum_dumpable_refcount' = 1
                               THEN "acq_query" ELSE "acq_unlock"]
  /\ UNCHANGED <<callVars, child, success, resources, helperVars, cpu_context,
                 chanVars, gum_is_regset_supported, gum_dumpable_previous,
                 dumpable, ptracer, kernelVars, histVars>>

\* gum_dumpable_previous = prctl (PR_GET_DUMPABLE) (lines 2136-2137)
AcquireQuery(s) ==
  /\ ppc[s] = "acq_query"
  /\ \/ /\ gum_dumpable_previous' = dumpable
        /\ NoFault
     \/ /\ gum_dumpable_previous' = -1
        /\ Fault(s, "query", FALSE)
  /\ ppc' = [ppc EXCEPT ![s] =
               IF gum_dumpable_previous' # -1 /\ gum_dumpable_previous' # 1
               THEN "acq_set" ELSE "acq_unlock"]
  /\ UNCHANGED <<dumpable_before, callVars, child, success, resources, helperVars, cpu_context,
                 chanVars, gum_is_regset_supported, gum_dumpable_lock,
                 gum_dumpable_refcount, dumpable, ptracer, kernelVars, trace>>

\* prctl (PR_SET_DUMPABLE, 1) (line 2138)
AcquireSet(s) ==
  /\ ppc[s] = "acq_set"
  /\ dumpable' = 1
  /\ ppc' = [ppc EXCEPT ![s] = "acq_unlock"]
  /\ UNCHANGED <<dumpable_before, callVars, child, success, resources, helperVars, cpu_context,
                 chanVars, gum_is_regset_supported, gum_dumpable_lock,
                 gum_dumpable_refcount, gum_dumpable_previous, ptracer,
                 kernelVars, histVars>>

\* G_UNLOCK (gum_dumpable) (line 2141)
AcquireUnlock(s) ==
  /\ ppc[s] = "acq_unlock"
  /\ gum_dumpable_lock' = 0
  /\ ppc' = [ppc EXCEPT ![s] = "set_ptracer"]
  /\ UNCHANGED <<dumpable_before, callVars, child, success, resources, helperVars, cpu_context,
                 chanVars, gum_is_regset_supported, gum_dumpable_refcount,
                 gum_dumpable_previous, dumpable, ptracer, kernelVars, histVars>>

\* The kernel's PR_SET_PTRACER: the declared tracer replaces the previous
\* one; a value that names no process is refused and changes nothing.
KernelSetPtracer(pid) == IF pid > 0 THEN pid ELSE ptracer

\* prctl (PR_SET_PTRACER, child) (line 861)
SetPtracer(s) ==
  /\ ppc[s] = "set_ptracer"
  /\ ptracer' = KernelSetPtracer(child[s])
  /\ ppc' = [ppc EXCEPT ![s] = "put_ready"]
  /\ UNCHANGED <<callVars, child, success, resources, helperVars, cpu_context,
                 chanVars, gum_is_regset_supported, dumpVars, kernelVars,
                 histVars>>

\* gum_put_ack (fd, GUM_ACK_READY) (line 863)
PutReady(s) ==
  /\ ppc[s] = "put_ready"
  /\ toHelper' = [toHelper EXCEPT ![s] = Append(@, GUM_ACK_READY)]
  /\ ppc' = [ppc EXCEPT ![s] = "await_read"]
  /\ UNCHANGED <<callVars, child, success, resources, helperVars, cpu_context,
                 toParent, gum_is_regset_supported, dumpVars, ptracer,
                 kernelVars, histVars>>

\* Mutant of AwaitReadContext: on READ_CONTEXT the parent goes on to send
\* MODIFIED_CONTEXT without calling func
AwaitReadContextSkipsCallback(s) ==
  /\ ppc[s] = "await_read"
  /\ toParent[s] # <<>>
  /\ toParent' = [toParent EXCEPT ![s] = Tail(@)]
  /\ ppc' = [ppc EXCEPT ![s] =
               IF gum_await_ack(Head(toParent[s]), GUM_ACK_READ_CONTEXT)
               THEN "put_modified" ELSE "rel_lock"]
  /\ UNCHANGED <<callVars, child, success, resources, helperVars, cpu_context,
                 toHelper, gum_is_regset_supported, dumpVars, ptracer,
                 kernelVars, histVars>>

\* if (gum_await_ack (fd, GUM_ACK_READ_CONTEXT)) (line 865)
AwaitReadContext(s) ==
  /\ ppc[s] = "await_read"
  /\ toParent[s] # <<>>
  /\ toParent' = [toParent EXCEPT ![s] = Tail(@)]
  /\ ppc' = [ppc EXCEPT ![s] =
               IF gum_await_ack(Head(toParent[s]), GUM_ACK_READ_CONTEXT)
               THEN "callback" ELSE "rel_lock"]
  /\ UNCHANGED <<callVars, child, success, resources, helperVars, cpu_context,
                 toHelper, gum_is_regset_supported, dumpVars, ptracer,
                 kernelVars, histVars>>

\* func (thread_id, &ctx.cpu_context, user_data) is entered (line 867)
CallbackStart(s) ==
  /\ ppc[s] = "callback"
  /\ trace' = Log(s, "cb_start")
  /\ ppc' = [ppc EXCEPT ![s] = "in_callback"]
  /\ UNCHANGED <<callVars, child, success, resources, helperVars, cpu_context,
                 chanVars, gum_is_regset_supported, dumpVars, ptracer,
                 kernelVars, failed, faults>>

\* func returns, having mutated the context in place (line 867); what func
\* does shows only now, so the caller's choice of func is made here
CallbackReturn(s) ==
  /\ ppc[s] = "in_callback"
  /\ \E kind \in Callbacks :
       /\ cb' = [cb EXCEPT ![s] = kind]
       /\ cpu_context' = [cpu_context EXCEPT ![s] = ApplyCallback(kind, @)]
  /\ trace' = Log(s, "cb_end")
  /\ ppc' = [ppc EXCEPT ![s] = "put_modified"]
  /\ UNCHANGED <<arch, otherVars, calls, thread_id, child, success, resources, helperVars, chanVars,
                 gum_is_regset_supported, dumpVars, ptracer, kernelVars,
                 failed, faults>>

\* gum_put_ack (fd, GUM_ACK_MODIFIED_CONTEXT) (line 868)
PutModified(s) ==
  /\ ppc[s] = "put_modified"
  /\ toHelper' = [toHelper EXCEPT ![s] = Append(@, GUM_ACK_MODIFIED_CONTEXT)]
  /\ ppc' = [ppc EXCEPT ![s] = "await_wrote"]
  /\ UNCHANGED <<callVars, child, success, resources, helperVars, cpu_context,
                 toParent, gum_is_regset_supported, dumpVars, ptracer,
                 kernelVars, histVars>>

\* success = gum_await_ack (fd, GUM_ACK_WROTE_CONTEXT) (line 870)
AwaitWroteContext(s) ==
  /\ ppc[s] = "await_wrote"
  /\ toParent[s] # <<>>
  /\ toParent' = [toParent EXCEPT ![s] = Tail(@)]
  /\ success' = [success EXCEPT ![s] =
                   gum_await_ack(Head(toParent[s]), GUM_ACK_WROTE_CONTEXT)]
  /\ ppc' = [ppc EXCEPT ![s] = "rel_lock"]
  /\ UNCHANGED <<callVars, child, resources, helperVars, cpu_context,
                 toHelper, gum_is_regset_supported, dumpVars, ptracer,
                 kernelVars, histVars>>

\* Mutant of ReleaseLock: every release restores the flag, not only the one
\* that brings the counter to zero
ReleaseLockEager(s) ==
  /\ ppc[s] = "rel_lock"
  /\ gum_dumpable_lock = 0
  /\ gum_dumpable_lock' = s
  /\ gum_dumpable_refcount' = gum_dumpable_refcount - 1
  /\ ppc' = [ppc EXCEPT ![s] =
               IF gum_dumpable_previous # -1 /\ gum_dumpable_previous # 1
               THEN "rel_set" ELSE "rel_unlock"]
  /\ UNCHANGED <<dumpable_before, callVars, child, success, resources, helperVars, cpu_context,
                 chanVars, gum_is_regset_supported, gum_dumpable_previous,
                 dumpable, ptracer, kernelVars, histVars>>

\* gum_release_dumpability: G_LOCK; --gum_dumpable_refcount (lines 2147-2151)
ReleaseLock(s) ==
  /\ ppc[s] = "rel_lock"
  /\ gum_dumpable_lock = 0
  /\ gum_dumpable_lock' = s
  /\ gum_dumpable_refcount' = gum_dumpable_refcount - 1
  /\ ppc' = [ppc EXCEPT ![s] =
               IF /\ gum_dumpable_refcount' = 0
                  /\ gum_dumpable_previous # -1 /\ gum_dumpable_previous # 1
               THEN "rel_set" ELSE "rel_unlock"]
  /\ UNCHANGED <<dumpable_before, callVars, child, success, resources, helperVars, cpu_context,
                 chanVars, gum_is_regset_supported, gum_dumpable_previous,
                 dumpable, ptracer, kernelVars, histVars>>

\* The kernel's PR_SET_DUMPABLE: only 0 and 1 may be set, anything else is
\* refused with EINVAL and the flag keeps its value.
KernelSetDumpable(value) == IF value \in {0, 1} THEN value ELSE dumpable

\* prctl (PR_SET_DUMPABLE, gum_dumpable_previous) (line 2152)
ReleaseSet(s) ==
  /\ ppc[s] = "rel_set"
  /\ dumpable' = KernelSetDumpable(gum_dumpable_previous)
  /\ ppc' = [ppc EXCEPT ![s] = "rel_unlock"]
  /\ UNCHANGED <<dumpable_before, callVars, child, success, resources, helperVars, cpu_context,
                 chanVars, gum_is_regset_supported, gum_dumpable_lock,
                 gum_dumpable_refcount, gum_dumpable_previous, ptracer,
                 kernelVars, histVars>>

\* G_UNLOCK (gum_dumpable) (line 2155)
ReleaseUnlock(s) ==
  /\ ppc[s] = "rel_unlock"
  /\ gum_dumpable_lock' = 0
  /\ ppc' = [ppc EXCEPT ![s] = "waitpid"]
  /\ UNCHANGED <<dumpable_before, callVars, child, success, resources, helperVars, cpu_context,
                 chanVars, gum_is_regset_supported, gum_dumpable_refcount,
                 gum_dumpable_previous, dumpable, ptracer, kernelVars, histVars>>

\* Mutant of Waitpid: the parent does not wait for the child to exit
WaitpidNoHang(s) ==
  /\ ppc[s] = "waitpid"
  /\ hpc' = [hpc EXCEPT ![s] = IF @ = "exited" THEN "reaped" ELSE @]
  /\ ppc' = [ppc EXCEPT ![s] = "beach"]
  /\ UNCHANGED <<callVars, child, success, resources, attached, regs, regs_read, hack,
                 cpu_context, chanVars, gum_is_regset_supported, dumpVars,
                 ptracer, kernelVars, histVars>>

\* waitpid (child, NULL, __WCLONE): blocks until the child has exited and
\* reaps it (line 875)
Waitpid(s) ==
  /\ ppc[s] = "waitpid"
  /\ hpc[s] = "exited"
  /\ hpc' = [hpc EXCEPT ![s] = "reaped"]
  /\ ppc' = [ppc EXCEPT ![s] = "beach"]
  /\ UNCHANGED <<callVars, child, success, resources, attached, regs, regs_read, hack,
                 cpu_context, chanVars, gum_is_regset_supported, dumpVars,
                 ptracer, kernelVars, histVars>>

\* beach: gum_free_pages (tls); gum_free_pages (stack); close; close
\* (lines 877-882)
Beach(s) ==
  /\ ppc[s] = "beach"
  /\ resources' = [resources EXCEPT ![s] = {}]
  /\ ppc' = [ppc EXCEPT ![s] = "returned"]
  /\ UNCHANGED <<callVars, child, success, helperVars, cpu_context, chanVars,
                 gum_is_regset_supported, dumpVars, ptracer, kernelVars,
                 histVars>>

\* return success (line 885): the call's frame is gone, the caller thread
\* may call again
Return(s) ==
  /\ ppc[s] = "returned"
  /\ ppc' = [ppc EXCEPT ![s] = "idle"]
  /\ hpc' = [hpc EXCEPT ![s] = "none"]
  /\ thread_id' = [thread_id EXCEPT ![s] = 1]
  /\ cb' = [cb EXCEPT ![s] = "none"]
  /\ child' = [child EXCEPT ![s] = 0]
  /\ success' = [success EXCEPT ![s] = FALSE]
  /\ cpu_context' = [cpu_context EXCEPT ![s] = NoContext]
  /\ hack' = [hack EXCEPT ![s] = 0]
  /\ trace' = [trace EXCEPT ![s] = <<>>]
  /\ failed' = [failed EXCEPT ![s] = {}]
  /\ UNCHANGED <<arch, otherVars, calls, resources, attached, regs, regs_read, chanVars,
                 gum_is_regset_supported, dumpVars, ptracer, kernelVars,
                 faults>>

(***************************************************************************)
(* The kernel's side of ptrace, as far as the helper depends on it         *)
(***************************************************************************)

\* A ptrace request on a tracee is served only for the tracee's tracer while
\* the tracee is in ptrace-stop; otherwise the kernel answers ESRCH.
MayAccess(s, t) == tracer[t] = s /\ stopped[t]
AccessErrnos(s, t) == IF MayAccess(s, t) THEN PtraceErrnos ELSE {ESRCH}
\* PTRACE_ATTACH is refused with EPERM when the thread already has a tracer.
AttachErrnos(t) == IF tracer[t] # 0 THEN {EPERM} ELSE {EPERM, ESRCH}

(***************************************************************************)
(* The helper: gum_do_modify_thread                                        *)
(***************************************************************************)

\* Mutant of HelperAwaitReady: the helper goes on to attach without waiting
\* for the parent's READY
HelperAwaitReadyNoWait(s) ==
  /\ hpc[s] = "await_ready"
  /\ toHelper' = [toHelper EXCEPT ![s] = IF @ = <<>> THEN @ ELSE Tail(@)]
  /\ hpc' = [hpc EXCEPT ![s] = "attach"]
  /\ UNCHANGED <<callVars, parentVars, attached, regs, regs_read, hack, cpu_context,
                 toParent, gum_is_regset_supported, dumpVars, ptracer,
                 kernelVars, histVars>>

\* gum_await_ack (fd, GUM_ACK_READY); the result is not looked at (line 901)
HelperAwaitReady(s) ==
  /\ hpc[s] = "await_ready"
  /\ toHelper[s] # <<>>
  /\ toHelper' = [toHelper EXCEPT ![s] = Tail(@)]
  /\ hpc' = [hpc EXCEPT ![s] = "attach"]
  /\ UNCHANGED <<callVars, parentVars, attached, regs, regs_read, hack, cpu_context,
                 toParent, gum_is_regset_supported, dumpVars, ptracer,
                 kernelVars, histVars>>

\* res = gum_libc_ptrace (PTRACE_ATTACH, ...); if (res == -1) goto
\* failed_to_attach; attached = TRUE (lines 903-906)
HelperAttach(s) ==
  /\ hpc[s] = "attach"
  /\ \E res \in {0} \cup {gum_libc_syscall_4(e) : e \in AttachErrnos(thread_id[s])} :
       /\ res = 0 => tracer[thread_id[s]] = 0
       /\ tracer' = IF res = 0 THEN [tracer EXCEPT ![thread_id[s]] = s]
                    ELSE tracer
       /\ IF res = 0 THEN NoFault ELSE Fault(s, "attach", tracer[thread_id[s]] # 0)
       /\ IF res = -1
          THEN /\ hack' = [hack EXCEPT ![s] = GUM_ACK_FAILED_TO_ATTACH]
               /\ hpc' = [hpc EXCEPT ![s] = "put_ack"]
               /\ attached' = attached
          ELSE /\ attached' = [attached EXCEPT ![s] = TRUE]
               /\ hpc' = [hpc EXCEPT ![s] = "wait"]
               /\ hack' = hack
  /\ UNCHANGED <<callVars, parentVars, regs, regs_read, cpu_context, chanVars,
                 gum_is_regset_supported, dumpVars, ptracer, stopped, tregs,
                 trace>>

\* wait_result = gum_libc_waitpid (ctx->thread_id, &status, __WALL) and the
\* two checks on it (lines 908-914).  The kernel reports the tracee only to
\* its tracer: "stopped", "other" (a status that is not a stop) or an error.
HelperWait(s) ==
  /\ hpc[s] = "wait"
  /\ \E outcome \in IF tracer[thread_id[s]] = s
                    THEN {"stopped", "other", "error"} ELSE {"error"} :
       LET wait_result == IF outcome = "error"
                          THEN gum_libc_syscall_4(ECHILD)
                          ELSE thread_id[s]
       IN /\ stopped' = IF outcome = "stopped"
                        THEN [stopped EXCEPT ![thread_id[s]] = TRUE]
                        ELSE stopped
          /\ IF outcome = "stopped" THEN NoFault ELSE Fault(s, IF outcome = "error" THEN "wait" ELSE "stop",
                          tracer[thread_id[s]] # s)
          /\ IF wait_result # thread_id[s]
             THEN /\ hack' = [hack EXCEPT ![s] = GUM_ACK_FAILED_TO_WAIT]
                  /\ hpc' = [hpc EXCEPT ![s] = "put_ack"]
             ELSE IF outcome # "stopped"
             THEN /\ hack' = [hack EXCEPT ![s] = GUM_ACK_FAILED_TO_STOP]
                  /\ hpc' = [hpc EXCEPT ![s] = "put_ack"]
             ELSE /\ hack' = hack
                  /\ hpc' = [hpc EXCEPT ![s] = "get_regs"]
  /\ UNCHANGED <<callVars, parentVars, attached, regs, regs_read, cpu_context, chanVars,
                 gum_is_regset_supported, dumpVars, ptracer, tracer, tregs,
                 trace>>

\* Mutant of AfterGetRegs: the context buffer is one static buffer shared by
\* all calls instead of a field of the call's own GumModifyThreadContext
AfterGetRegsStatic(s, res, filled) ==
  /\ IF res = -1
     THEN /\ hack' = [hack EXCEPT ![s] = GUM_ACK_FAILED_TO_READ]
          /\ regs' = regs
          /\ regs_read' = regs_read
          /\ cpu_context' = cpu_context
     ELSE /\ hack' = [hack EXCEPT ![s] = GUM_ACK_READ_CONTEXT]
          /\ IF filled
             THEN regs' = [regs EXCEPT ![s] = tregs[thread_id[s]]]
             ELSE \E garbage \in GarbageRegs : regs' = [regs EXCEPT ![s] = garbage]
          /\ regs_read' = [regs_read EXCEPT ![s] = regs'[s]]
          /\ cpu_context' = [x \in Sessions |->
                               gum_parse_regs(regs'[s], cpu_context[x])]
  /\ trace' = Log(s, "read")
  /\ hpc' = [hpc EXCEPT ![s] = "put_ack"]

\* What gum_do_modify_thread does with the result of gum_get_regs
\* (lines 922-926).  `filled` tells whether the kernel wrote the buffer; a
\* buffer it did not write holds whatever the helper's stack held.
AfterGetRegs(s, res, filled) ==
  /\ IF res = -1
     THEN /\ hack' = [hack EXCEPT ![s] = GUM_ACK_FAILED_TO_READ]
          /\ regs' = regs
          /\ regs_read' = regs_read
          /\ cpu_context' = cpu_context
     ELSE /\ hack' = [hack EXCEPT ![s] = GUM_ACK_READ_CONTEXT]
          /\ IF filled
             THEN regs' = [regs EXCEPT ![s] = tregs[thread_id[s]]]
             ELSE \E garbage \in GarbageRegs : regs' = [regs EXCEPT ![s] = garbage]
          /\ regs_read' = [regs_read EXCEPT ![s] = regs'[s]]
          /\ cpu_context' = [cpu_context EXCEPT ![s] = gum_parse_regs(regs'[s], @)]
  /\ trace' = Log(s, "read")
  /\ hpc' = [hpc EXCEPT ![s] = "put_ack"]

\* gum_get_regs: if (gum_is_regset_supported) (line 2761)
HelperGetRegs(s) ==
  /\ hpc[s] = "get_regs"
  /\ hpc' = [hpc EXCEPT ![s] = IF gum_is_regset_supported
                               THEN "getregset" ELSE "getregs"]
  /\ UNCHANGED <<callVars, parentVars, attached, regs, regs_read, hack, cpu_context,
                 chanVars, gum_is_regset_supported, dumpVars, ptracer,
                 kernelVars, histVars>>

\* The results a register-set request can have: 0, or the kernel's error
\* (a kernel without the request answers EIO) as gum_libc_ptrace returns it
RegsetResults(s) ==
  (IF MayAccess(s, thread_id[s]) THEN {[errno |-> 0, ret |-> 0]} ELSE {})
  \cup {[errno |-> e, ret |-> gum_libc_syscall_4(e)] :
          e \in AccessErrnos(s, thread_id[s])}

\* The results of the legacy fixed-layout request
LegacyResults(s) ==
  (IF MayAccess(s, thread_id[s]) THEN {0} ELSE {})
  \cup {gum_libc_syscall_4(e) : e \in AccessErrnos(s, thread_id[s])}

\* gum_get_regs: ret = gum_libc_ptrace (PTRACE_GETREGSET, ...) and the three
\* branches on ret (lines 2767-2774)
HelperGetRegset(s) ==
  /\ hpc[s] = "getregset"
  /\ \E r \in RegsetResults(s) :
       /\ IF r.ret = 0 THEN NoFault
          ELSE Fault(s, IF r.errno = EIO THEN "regset" ELSE "read",
                     ~MayAccess(s, thread_id[s]))
       /\ IF r.ret >= 0 \/ r.ret = -EPERM \/ r.ret = -ESRCH
          THEN /\ AfterGetRegs(s, r.ret, r.ret = 0)
               /\ gum_is_regset_supported' = gum_is_regset_supported
          ELSE /\ gum_is_regset_supported' = FALSE
               /\ hpc' = [hpc EXCEPT ![s] = "getregs"]
               /\ UNCHANGED <<hack, regs, regs_read, cpu_context, trace>>
  /\ UNCHANGED <<callVars, parentVars, attached, chanVars, dumpVars, ptracer,
                 kernelVars>>

\* gum_get_regs: return gum_libc_ptrace (PTRACE_GETREGS, ...) (line 2777)
HelperGetRegsLegacy(s) ==
  /\ hpc[s] = "getregs"
  /\ \E ret \in LegacyResults(s) :
       /\ IF ret = 0 THEN NoFault ELSE Fault(s, "read", ~MayAccess(s, thread_id[s]))
       /\ AfterGetRegs(s, ret, ret = 0)
  /\ UNCHANGED <<callVars, parentVars, attached, chanVars,
                 gum_is_regset_supported, dumpVars, ptracer, kernelVars>>

\* gum_put_ack (fd, ack), on the success path and at each failed_to_* label
\* (lines 926, 941, 945-974)
HelperPutAck(s) ==
  /\ hpc[s] = "put_ack"
  /\ toParent' = [toParent EXCEPT ![s] = Append(@, hack[s])]
  /\ hpc' = [hpc EXCEPT ![s] = IF hack[s] = GUM_ACK_READ_CONTEXT
                               THEN "await_modified" ELSE "beach"]
  /\ UNCHANGED <<callVars, parentVars, attached, regs, regs_read, hack, cpu_context,
                 toHelper, gum_is_regset_supported, dumpVars, ptracer,
                 kernelVars, histVars>>

\* Mutant of HelperAwaitModified: the helper does not wait for the parent's
\* MODIFIED_CONTEXT before it converts the context back
HelperAwaitModifiedNoWait(s) ==
  /\ hpc[s] = "await_modified"
  /\ toHelper' = [toHelper EXCEPT ![s] = IF @ = <<>> THEN @ ELSE Tail(@)]
  /\ regs' = [regs EXCEPT ![s] = gum_unparse_regs(cpu_context[s], @)]
  /\ regs_read' = regs_read
  /\ hpc' = [hpc EXCEPT ![s] = "set_regs"]
  /\ UNCHANGED <<callVars, parentVars, attached, hack, cpu_context, toParent,
                 gum_is_regset_supported, dumpVars, ptracer, kernelVars,
                 histVars>>

\* gum_await_ack (fd, GUM_ACK_MODIFIED_CONTEXT); gum_unparse_regs
\* (lines 928-929)
HelperAwaitModified(s) ==
  /\ hpc[s] = "await_modified"
  /\ toHelper[s] # <<>>
  /\ toHelper' = [toHelper EXCEPT ![s] = Tail(@)]
  /\ regs' = [regs EXCEPT ![s] = gum_unparse_regs(cpu_context[s], @)]
  /\ regs_read' = regs_read
  /\ hpc' = [hpc EXCEPT ![s] = "set_regs"]
  /\ UNCHANGED <<callVars, parentVars, attached, hack, cpu_context, toParent,
                 gum_is_regset_supported, dumpVars, ptracer, kernelVars,
                 histVars>>

\* What gum_do_modify_thread does with the result of gum_set_regs
\* (lines 930-932); the kernel installs the buffer when it returns 0.
AfterSetRegs(s, res) ==
  /\ tregs' = IF res = 0 THEN [tregs EXCEPT ![thread_id[s]] = regs[s]]
              ELSE tregs
  /\ IF res = -1
     THEN /\ hack' = [hack EXCEPT ![s] = GUM_ACK_FAILED_TO_WRITE]
          /\ hpc' = [hpc EXCEPT ![s] = "put_ack"]
     ELSE /\ hack' = hack
          /\ hpc' = [hpc EXCEPT ![s] = "detach"]
  /\ trace' = Log(s, "write")

\* gum_set_regs: if (gum_is_regset_supported) (line 2784)
HelperSetRegs(s) ==
  /\ hpc[s] = "set_regs"
  /\ hpc' = [hpc EXCEPT ![s] = IF gum_is_regset_supported
                               THEN "setregset" ELSE "setregs"]
  /\ UNCHANGED <<callVars, parentVars, attached, regs, regs_read, hack, cpu_context,
                 chanVars, gum_is_regset_supported, dumpVars, ptracer,
                 kernelVars, histVars>>

\* gum_set_regs: ret = gum_libc_ptrace (PTRACE_SETREGSET, ...) and the three
\* branches on ret (lines 2790-2797)
HelperSetRegset(s) ==
  /\ hpc[s] = "setregset"
  /\ \E r \in RegsetResults(s) :
       /\ IF r.ret = 0 THEN NoFault
          ELSE Fault(s, IF r.errno = EIO THEN "regset" ELSE "write",
                     ~MayAccess(s, thread_id[s]))
       /\ IF r.ret >= 0 \/ r.ret = -EPERM \/ r.ret = -ESRCH
          THEN /\ AfterSetRegs(s, r.ret)
               /\ gum_is_regset_supported' = gum_is_regset_supported
          ELSE /\ gum_is_regset_supported' = FALSE
               /\ hpc' = [hpc EXCEPT ![s] = "setregs"]
               /\ UNCHANGED <<hack, tregs, trace>>
  /\ UNCHANGED <<callVars, parentVars, attached, regs, regs_read, cpu_context, chanVars,
                 dumpVars, ptracer, tracer, stopped>>

\* gum_set_regs: return gum_libc_ptrace (PTRACE_SETREGS, ...) (line 2800)
HelperSetRegsLegacy(s) ==
  /\ hpc[s] = "setregs"
  /\ \E ret \in LegacyResults(s) :
       /\ IF ret = 0 THEN NoFault ELSE Fault(s, "write", ~MayAccess(s, thread_id[s]))
       /\ AfterSetRegs(s, ret)
  /\ UNCHANGED <<callVars, parentVars, attached, regs, regs_read, cpu_context, chanVars,
                 gum_is_regset_supported, dumpVars, ptracer, tracer, stopped>>

\* The kernel's PTRACE_DETACH with SIGCONT: on success the thread has no
\* tracer any more and runs again.
KernelDetach(s, res) ==
  /\ tracer' = IF res = 0 THEN [tracer EXCEPT ![thread_id[s]] = 0] ELSE tracer
  /\ stopped' = IF res = 0 THEN [stopped EXCEPT ![thread_id[s]] = FALSE]
                ELSE stopped

\* res = gum_libc_ptrace (PTRACE_DETACH, ...); attached = FALSE;
\* if (res == -1) goto failed_to_detach (lines 934-941)
HelperDetach(s) ==
  /\ hpc[s] = "detach"
  /\ \E res \in LegacyResults(s) :
       /\ KernelDetach(s, res)
       /\ IF res = 0 THEN NoFault ELSE Fault(s, "detach", ~MayAccess(s, thread_id[s]))
       /\ hack' = [hack EXCEPT ![s] = IF res = -1 THEN GUM_ACK_FAILED_TO_DETACH
                                      ELSE GUM_ACK_WROTE_CONTEXT]
  /\ attached' = [attached EXCEPT ![s] = FALSE]
  /\ trace' = Log(s, "detach")
  /\ hpc' = [hpc EXCEPT ![s] = "put_ack"]
  /\ UNCHANGED <<callVars, parentVars, regs, regs_read, cpu_context, chanVars,
                 gum_is_regset_supported, dumpVars, ptracer, tregs>>

\* Mutant of HelperBeach: the helper returns without the detach under
\* if (attached)
HelperBeachNoDetach(s) ==
  /\ hpc[s] = "beach"
  /\ hpc' = [hpc EXCEPT ![s] = "exit"]
  /\ UNCHANGED <<callVars, parentVars, attached, regs, regs_read, hack, cpu_context,
                 chanVars, gum_is_regset_supported, dumpVars, ptracer, tregs,
                 tracer, stopped, trace, failed, faults>>

\* beach: if (attached) gum_libc_ptrace (PTRACE_DETACH, ...); return 0
\* (lines 975-984)
HelperBeach(s) ==
  /\ hpc[s] = "beach"
  /\ IF attached[s]
     THEN /\ \E res \in LegacyResults(s) :
               /\ KernelDetach(s, res)
               /\ IF res = 0 THEN NoFault ELSE Fault(s, "beach_detach", ~MayAccess(s, thread_id[s]))
          /\ trace' = Log(s, "detach")
     ELSE /\ UNCHANGED <<tracer, stopped, trace>>
          /\ NoFault
  /\ hpc' = [hpc EXCEPT ![s] = "exit"]
  /\ UNCHANGED <<callVars, parentVars, attached, regs, regs_read, hack, cpu_context,
                 chanVars, gum_is_regset_supported, dumpVars, ptracer, tregs>>

\* The exit system call that gum_libc_clone issues when child_func returns.
\* A tracer that exits loses its tracees: the kernel detaches and resumes
\* them, and forgets the exiting process as declared tracer.
HelperExit(s) ==
  /\ hpc[s] = "exit"
  /\ tracer' = [t \in Threads |-> IF tracer[t] = s THEN 0 ELSE tracer[t]]
  /\ stopped' = [t \in Threads |-> IF tracer[t] = s THEN FALSE ELSE stopped[t]]
  /\ hpc' = [hpc EXCEPT ![s] = "exited"]
  /\ attached' = [attached EXCEPT ![s] = FALSE]
  /\ regs' = [regs EXCEPT ![s] = NoRegs]
  /\ regs_read' = [regs_read EXCEPT ![s] = NoRegs]
  /\ ptracer' = IF ptracer = ChildPid(s) THEN 0 ELSE ptracer
  /\ UNCHANGED <<callVars, parentVars, hack, cpu_context, chanVars,
                 gum_is_regset_supported, dumpVars, tregs, histVars>>

Next ==
  \E s \in Sessions :
    \/ Call(s)
    \/ Clone(s)
    \/ AcquireLock(s)
    \/ AcquireQuery(s)
    \/ AcquireSet(s)
    \/ AcquireUnlock(s)
    \/ SetPtracer(s)
    \/ PutReady(s)
    \/ AwaitReadContext(s)
    \/ CallbackStart(s)
    \/ CallbackReturn(s)
    \/ PutModified(s)
    \/ AwaitWroteContext(s)
    \/ ReleaseLock(s)
    \/ ReleaseSet(s)
    \/ ReleaseUnlock(s)
    \/ Waitpid(s)
    \/ Beach(s)
    \/ Return(s)
    \/ HelperAwaitReady(s)
    \/ HelperAttach(s)
    \/ HelperWait(s)
    \/ HelperGetRegs(s)
    \/ HelperGetRegset(s)
    \/ HelperGetRegsLegacy(s)
    \/ HelperPutAck(s)
    \/ HelperAwaitModified(s)
    \/ HelperSetRegs(s)
    \/ HelperSetRegset(s)
    \/ HelperSetRegsLegacy(s)
    \/ HelperDetach(s)
    \/ HelperBeach(s)
    \/ HelperExit(s)

Spec == Init /\ [][Next]_vars
SpecDump == InitDump /\ [][Next]_vars

\* The protocol built for each architecture the register conversions know
InitAllArchs ==
  /\ InitCommon
  /\ arch \in CpuArchs
  /\ dumpable = 0
  /\ dumpable_before = 0
  /\ SelfIdle
  /\ ConvIdle
  /\ AllocIdle
  /\ DeflIdle

SpecAllArchs == InitAllArchs /\ [][Next]_vars

(***************************************************************************)
(* gum_process_modify_thread against the calling thread (lines 739-769)    *)
(***************************************************************************)

notSelfVars == <<arch, protocolVars, convVars, allocVars, deflVars>>

\* The (guint32) casts of the MIPS saved-context conversion keep the low half
\* of a 64-bit greg_t.  Registers are scaled down here: a guint32 has three
\* bits and a greg_t six.
GUINT32_MODULUS == 8

\* gum_linux_parse_ucontext: legacy ARM sets cpsr to 0, ARM copies it, ARM64
\* sets nzcv to 0, all three clear v; MIPS casts every register to guint32
gum_linux_parse_ucontext(u, c) ==
  IF arch = "arm_legacy_mcontext"
  THEN [pc |-> u.pc, gp |-> u.gp, flags |-> 0, v |-> 0]
  ELSE IF arch = "arm"
  THEN [pc |-> u.pc, gp |-> u.gp, flags |-> u.flags, v |-> 0]
  ELSE IF arch = "arm64"
  THEN [pc |-> u.pc, gp |-> u.gp, flags |-> 0, v |-> 0]
  ELSE IF arch = "mips"
  THEN [c EXCEPT !.pc = u.pc % GUINT32_MODULUS, !.gp = u.gp % GUINT32_MODULUS]
  ELSE [c EXCEPT !.pc = u.pc, !.gp = u.gp]

\* gum_linux_unparse_ucontext: writes pc and the general-purpose registers in
\* place; only (non-legacy) ARM writes cpsr, no architecture writes v
gum_linux_unparse_ucontext(c, u) ==
  IF arch = "arm"
  THEN [u EXCEPT !.pc = c.pc, !.gp = c.gp, !.flags = c.flags]
  ELSE [u EXCEPT !.pc = c.pc, !.gp = c.gp]

\* the address getcontext returns to: where a captured context resumes
ResumePc == 2

\* if (thread_id == gum_process_get_current_thread_id ()) (line 739); without
\* the block the call falls through with success still FALSE
SelfCall ==
  /\ spc = "idle"
  /\ spc' = IF has_getcontext THEN "getcontext" ELSE "return"
  /\ modified' = FALSE
  /\ self_success' = FALSE
  /\ UNCHANGED <<has_getcontext, cpu, uc, self_context, func_calls, notSelfVars>>

\* getcontext (&uc) (line 754): the captured context resumes right after it
SelfGetcontext ==
  /\ spc = "getcontext"
  /\ uc' = [cpu EXCEPT !.pc = ResumePc]
  /\ spc' = "test_modified"
  /\ UNCHANGED <<has_getcontext, cpu, modified, self_context, self_success,
                 func_calls, notSelfVars>>

\* if (!modified) (line 755)
SelfTestModified ==
  /\ spc = "test_modified"
  /\ spc' = IF ~modified THEN "parse" ELSE "success"
  /\ UNCHANGED <<has_getcontext, cpu, uc, modified, self_context, self_success,
                 func_calls, notSelfVars>>

\* gum_linux_parse_ucontext (&uc, &cpu_context) (line 759)
SelfParse ==
  /\ spc = "parse"
  /\ self_context' = gum_linux_parse_ucontext(uc, self_context)
  /\ spc' = "func"
  /\ UNCHANGED <<has_getcontext, cpu, uc, modified, self_success, func_calls,
                 notSelfVars>>

\* func (thread_id, &cpu_context, user_data) (line 760)
SelfFunc ==
  /\ spc = "func"
  /\ \E kind \in Callbacks : self_context' = ApplyCallback(kind, self_context)
  /\ func_calls' = IF func_calls < MaxFuncCalls THEN func_calls + 1
                                                ELSE func_calls
  /\ spc' = "unparse"
  /\ UNCHANGED <<has_getcontext, cpu, uc, modified, self_success, notSelfVars>>

\* gum_linux_unparse_ucontext (&cpu_context, &uc) (line 761)
SelfUnparse ==
  /\ spc = "unparse"
  /\ uc' = gum_linux_unparse_ucontext(self_context, uc)
  /\ spc' = "set_modified"
  /\ UNCHANGED <<has_getcontext, cpu, modified, self_context, self_success,
                 func_calls, notSelfVars>>

\* Mutant of SelfSetModified: the guard is kept in a register, so that the
\* re-installed context brings back the value it had at getcontext
SelfSetModifiedInRegister ==
  /\ spc = "set_modified"
  /\ modified' = FALSE
  /\ spc' = "setcontext"
  /\ UNCHANGED <<has_getcontext, cpu, uc, self_context, self_success,
                 func_calls, notSelfVars>>

\* modified = TRUE (line 763): volatile, so it is in memory and is not part
\* of the context that setcontext installs
SelfSetModified ==
  /\ spc = "set_modified"
  /\ modified' = TRUE
  /\ spc' = "setcontext"
  /\ UNCHANGED <<has_getcontext, cpu, uc, self_context, self_success,
                 func_calls, notSelfVars>>

\* setcontext (&uc) (line 764): the registers of uc become live; execution
\* goes on at uc's pc, which is the return of getcontext unless the callback
\* redirected it
SelfSetcontext ==
  /\ spc = "setcontext"
  /\ cpu' = uc
  /\ spc' = IF uc.pc = ResumePc THEN "test_modified" ELSE "elsewhere"
  /\ UNCHANGED <<has_getcontext, uc, modified, self_context, self_success,
                 func_calls, notSelfVars>>

\* success = TRUE (line 767)
SelfSuccess ==
  /\ spc = "success"
  /\ self_success' = TRUE
  /\ spc' = "return"
  /\ UNCHANGED <<has_getcontext, cpu, uc, modified, self_context, func_calls,
                 notSelfVars>>

\* return success (line 885)
SelfReturn ==
  /\ spc = "return"
  /\ spc' = "returned"
  /\ UNCHANGED <<has_getcontext, cpu, uc, modified, self_context,
                 self_success, func_calls, notSelfVars>>

NextSelf ==
  \/ SelfCall
  \/ SelfGetcontext
  \/ SelfTestModified
  \/ SelfParse
  \/ SelfFunc
  \/ SelfUnparse
  \/ SelfSetModified
  \/ SelfSetcontext
  \/ SelfSuccess
  \/ SelfReturn

\* one call against the calling thread, on every architecture, with and
\* without the getcontext block, from every register state
InitSelf ==
  /\ InitCommon
  /\ arch \in CpuArchs
  /\ dumpable = 0
  /\ dumpable_before = 0
  /\ has_getcontext \in BOOLEAN
  /\ spc = "idle"
  /\ cpu \in [pc : {ResumePc}, gp : {0, 1, 2}, flags : {0, 1}, extra : {0, 1}]
  /\ uc = NoRegs
  /\ modified = FALSE
  /\ self_context = NoContext
  /\ self_success = FALSE
  /\ func_calls = 0
  /\ ConvIdle
  /\ AllocIdle
  /\ DeflIdle

SpecSelf == InitSelf /\ [][NextSelf]_vars

(***************************************************************************)
(* The register conversions as functions: a context is converted to a      *)
(* kernel register buffer and to a saved context, and parsed back          *)
(***************************************************************************)

notConvVars == <<arch, protocolVars, selfVars, allocVars, deflVars>>

\* the GumCpuContext values of the architecture: cpsr/nzcv and v exist on
\* ARM and ARM64 only
CpuContexts ==
  IF arch \in {"arm_legacy_mcontext", "arm", "arm64"}
  THEN ContextValues
  ELSE {c \in ContextValues : c.flags = 0 /\ c.v = 0}

\* gum_unparse_regs (ctx, &regs)
ConvUnparseRegs ==
  /\ conv_regs_step = 0
  /\ conv_regs' = gum_unparse_regs(conv_in, conv_regs)
  /\ conv_regs_step' = 1
  /\ UNCHANGED <<conv_in, conv_uc, conv_out_regs, conv_out_uc, conv_uc_step,
                 notConvVars>>

\* gum_parse_regs (&regs, &out)
ConvParseRegs ==
  /\ conv_regs_step = 1
  /\ conv_out_regs' = gum_parse_regs(conv_regs, conv_out_regs)
  /\ conv_regs_step' = 2
  /\ UNCHANGED <<conv_in, conv_regs, conv_uc, conv_out_uc, conv_uc_step,
                 notConvVars>>

\* gum_linux_unparse_ucontext (ctx, &uc)
ConvUnparseUcontext ==
  /\ conv_uc_step = 0
  /\ conv_uc' = gum_linux_unparse_ucontext(conv_in, conv_uc)
  /\ conv_uc_step' = 1
  /\ UNCHANGED <<conv_in, conv_regs, conv_out_regs, conv_out_uc,
                 conv_regs_step, notConvVars>>

\* gum_linux_parse_ucontext (&uc, &out)
ConvParseUcontext ==
  /\ conv_uc_step = 1
  /\ conv_out_uc' = gum_linux_parse_ucontext(conv_uc, conv_out_uc)
  /\ conv_uc_step' = 2
  /\ UNCHANGED <<conv_in, conv_regs, conv_uc, conv_out_regs, conv_regs_step,
                 notConvVars>>

NextConv ==
  \/ ConvUnparseRegs
  \/ ConvParseRegs
  \/ ConvUnparseUcontext
  \/ ConvParseUcontext

\* every context of every architecture; the buffers hold what the kernel or
\* getcontext last put there, the output contexts are fresh
InitConv ==
  /\ InitCommon
  /\ arch \in CpuArchs
  /\ dumpable = 0
  /\ dumpable_before = 0
  /\ SelfIdle
  /\ conv_in \in CpuContexts
  /\ conv_regs \in {InitialRegs(t) : t \in Threads}
  /\ conv_uc \in {InitialRegs(t) : t \in Threads}
  /\ conv_out_regs = NoContext
  /\ conv_out_uc = NoContext
  /\ conv_regs_step = 0
  /\ conv_uc_step = 0
  /\ AllocIdle
  /\ DeflIdle

SpecConv == InitConv /\ [][NextConv]_vars

(***************************************************************************)
(* The code allocator: gumcodeallocator.c                                  *)
(***************************************************************************)

notAllocVars == <<arch, protocolVars, selfVars, convVars, deflVars>>

\* gum_query_page_size (); addresses count in quarters of a page
PageSize == 4
\* the page-aligned addresses at which the kernel may place a page
PageBases == {k * PageSize : k \in 0..(MaxBatches - 1)}
\* the slice sizes the allocator is initialised with: two slices or one slice
\* to the page
SliceSizes == {2, 4}
\* the GumAddressSpec values callers pass
AddressSpecs == {[near_address |-> 0, max_distance |-> 4],
                 [near_address |-> 5, max_distance |-> 3]}
\* the alignments callers pass: none, a page, two pages
Alignments == {0, 4, 8}

\* ABS
Abs(x) == IF x < 0 THEN -x ELSE x

\* slice->data = (guint8 *) data + (slice_index * self->slice_size) (line 264)
SliceAddress(sl) == pages[sl.pages].data + sl.index * slice_size

gum_code_slice_is_near(sl, spec) ==
  IF spec = NULL THEN TRUE
  ELSE LET slice_start == SliceAddress(sl)
           slice_end == slice_start + slice_size - 1
           distance_start == Abs(spec.near_address - slice_start)
           distance_end == Abs(spec.near_address - slice_end)
       IN distance_start <= spec.max_distance /\ distance_end <= spec.max_distance

gum_code_slice_is_aligned(sl, alignment) ==
  IF alignment = 0 THEN TRUE
  ELSE SliceAddress(sl) % alignment = 0

\* Mutant of gum_code_pages_unref: the count is left as it is
gum_code_pages_unref_keep(ps, b) == ps

\* gum_code_pages_unref: the memory and the GumCodePages go when the count
\* reaches zero
gum_code_pages_unref(ps, b) ==
  IF ~ps[b].live THEN ps
  ELSE IF ps[b].ref_count - 1 = 0
  THEN [ps EXCEPT ![b] = [@ EXCEPT !.ref_count = 0, !.live = FALSE]]
  ELSE [ps EXCEPT ![b] = [@ EXCEPT !.ref_count = @ - 1]]

\* Mutant of UnrefEach: the free slices keep their references
UnrefEachNone(ps, list) == ps

\* g_list_foreach (self->free_slices, (GFunc) gum_code_pages_unref, NULL)
RECURSIVE UnrefEach(_, _)
UnrefEach(ps, list) ==
  IF list = <<>> THEN ps
  ELSE UnrefEach(gum_code_pages_unref(ps, Head(list).pages), Tail(list))

\* Mutant of g_list_remove_link: the link stays in the list
g_list_remove_link_keep(list, i) == list

\* g_list_remove_link (self->free_slices, cur)
g_list_remove_link(list, i) ==
  [k \in 1..(Len(list) - 1) |-> IF k < i THEN list[k] ELSE list[k + 1]]

\* Mutant of g_hash_table_insert: the batch is not marked dirty
g_hash_table_insert_none(table, b) == table

\* g_hash_table_insert (self->dirty_pages, pages, pages)
g_hash_table_insert(table, b) == table \cup {b}

\* Mutant of g_hash_table_remove_all: the table stays as it is
g_hash_table_remove_all_keep(table) == table

\* g_hash_table_remove_all (self->dirty_pages)
g_hash_table_remove_all(table) == {}

\* the page addresses that no live GumCodePages occupies
UnmappedBases ==
  PageBases \ {pages[b].data : b \in {x \in 1..MaxBatches : pages[x].live}}

\* gum_alloc_n_pages, gum_try_alloc_n_pages_near and gum_code_segment_new:
\* the addresses a fresh page may get.  With a spec the page's address is
\* within max_distance of near_address; without one any free address will do.
gum_try_alloc_n_pages_near(spec) ==
  IF spec = NULL THEN UnmappedBases
  ELSE {a \in UnmappedBases : Abs(spec.near_address - a) <= spec.max_distance}

\* What an allocation hands back, as far as the request it answers goes:
\* whether it is a slice at all, whether it comes from a fresh batch, whether
\* a caller held it already, and whether it is near and aligned as asked.
\* ps is the page table the slice's address is to be read from.
Returned(sl, spec, alignment, fresh, ps) ==
  IF sl = NULL
  THEN [slice |-> FALSE, fresh |-> fresh, was_held |-> FALSE,
        constrained |-> spec # NULL, near |-> TRUE,
        aligning |-> alignment # 0, aligned |-> TRUE]
  ELSE LET slice_start == ps[sl.pages].data + sl.index * slice_size
           slice_end == slice_start + slice_size - 1
       IN [slice |-> TRUE, fresh |-> fresh, was_held |-> sl \in held,
           constrained |-> spec # NULL,
           near |-> \/ spec = NULL
                    \/ /\ Abs(spec.near_address - slice_start) <= spec.max_distance
                       /\ Abs(spec.near_address - slice_end) <= spec.max_distance,
           aligning |-> alignment # 0,
           aligned |-> \/ alignment = 0
                       \/ slice_start % alignment = 0]

\* Mutant of gum_code_allocator_try_alloc_batch_near: a failed attempt has
\* thrown the free list away
gum_code_allocator_try_alloc_batch_near_forgets(spec, alignment) ==
  IF spec # NULL /\ gum_try_alloc_n_pages_near(spec) = {}
  THEN /\ result' = Returned(NULL, spec, alignment, TRUE, pages)
       /\ commits' = NULL
       /\ free_slices' = <<>>
       /\ UNCHANGED <<pages, n_batches, dirty_pages,
                      uncommitted_pages, held, handed_out>>
  ELSE /\ n_batches < MaxBatches
       /\ \E data \in gum_try_alloc_n_pages_near(spec) :
            LET b == n_batches + 1
                first == [pages |-> b, index |-> 0]
            IN /\ pages' = [pages EXCEPT ![b] =
                              [live |-> TRUE, ref_count |-> slices_per_page,
                               data |-> data]]
               /\ n_batches' = b
               /\ free_slices' =
                    [i \in 1..(slices_per_page - 1) |-> [pages |-> b, index |-> i]]
                      \o free_slices
               /\ held' = held \cup {first}
               /\ result' = Returned(first, spec, alignment, TRUE, pages')
               /\ uncommitted_pages' = IF rwx_supported THEN uncommitted_pages
                                       ELSE uncommitted_pages \cup {b}
               /\ dirty_pages' = g_hash_table_insert(dirty_pages, b)
               /\ handed_out' = handed_out \cup {b}
               /\ commits' = NULL

\* gum_code_allocator_try_alloc_batch_near (lines 209-291)
gum_code_allocator_try_alloc_batch_near(spec, alignment) ==
  IF spec # NULL /\ gum_try_alloc_n_pages_near(spec) = {}
  THEN /\ result' = Returned(NULL, spec, alignment, TRUE, pages)
       /\ commits' = NULL
       /\ UNCHANGED <<pages, n_batches, free_slices, dirty_pages,
                      uncommitted_pages, held, handed_out>>
  ELSE /\ n_batches < MaxBatches
       /\ \E data \in gum_try_alloc_n_pages_near(spec) :
            LET b == n_batches + 1
                first == [pages |-> b, index |-> 0]
            IN /\ pages' = [pages EXCEPT ![b] =
                              [live |-> TRUE, ref_count |-> slices_per_page,
                               data |-> data]]
               /\ n_batches' = b
               /\ free_slices' =
                    [i \in 1..(slices_per_page - 1) |-> [pages |-> b, index |-> i]]
                      \o free_slices
               /\ held' = held \cup {first}
               /\ result' = Returned(first, spec, alignment, TRUE, pages')
               /\ uncommitted_pages' = IF rwx_supported THEN uncommitted_pages
                                       ELSE uncommitted_pages \cup {b}
               /\ dirty_pages' = g_hash_table_insert(dirty_pages, b)
               /\ handed_out' = handed_out \cup {b}
               /\ commits' = NULL

\* Mutant of FirstFit: the free list is never looked at
FirstFitNone(spec, alignment) == 0

\* the first link of the free list whose slice is near and aligned, 0 if none
\* (the loop at lines 149-165)
FirstFit(spec, alignment) ==
  LET fit == {i \in 1..Len(free_slices) :
                /\ gum_code_slice_is_near(free_slices[i], spec)
                /\ gum_code_slice_is_aligned(free_slices[i], alignment)}
  IN IF fit = {} THEN 0 ELSE CHOOSE i \in fit : \A j \in fit : i <= j

\* the body of gum_code_allocator_try_alloc_slice_near (lines 142-168)
TryAllocSliceNear(spec, alignment) ==
  LET cur == FirstFit(spec, alignment) IN
  IF cur # 0
  THEN /\ free_slices' = g_list_remove_link(free_slices, cur)
       /\ dirty_pages' = g_hash_table_insert(dirty_pages, free_slices[cur].pages)
       /\ handed_out' = handed_out \cup {free_slices[cur].pages}
       /\ commits' = NULL
       /\ held' = held \cup {free_slices[cur]}
       /\ result' = Returned(free_slices[cur], spec, alignment, FALSE, pages)
       /\ UNCHANGED <<pages, n_batches, uncommitted_pages>>
  ELSE gum_code_allocator_try_alloc_batch_near(spec, alignment)

\* gum_code_allocator_alloc_slice (lines 136-140)
gum_code_allocator_alloc_slice ==
  /\ ~crashed
  /\ TryAllocSliceNear(NULL, 0)
  /\ plain_allocs' = IF plain_allocs >= 0 THEN plain_allocs + 1 ELSE -1
  /\ UNCHANGED <<rwx_supported, slice_size, slices_per_page, crashed,
                 notAllocVars>>

\* gum_code_allocator_try_alloc_slice_near, called by a user of the allocator
gum_code_allocator_try_alloc_slice_near ==
  /\ ~crashed
  /\ \E spec \in AddressSpecs \cup {NULL}, alignment \in Alignments :
       /\ spec # NULL \/ alignment # 0
       /\ TryAllocSliceNear(spec, alignment)
  /\ plain_allocs' = -1
  /\ UNCHANGED <<rwx_supported, slice_size, slices_per_page, crashed,
                 notAllocVars>>

\* gum_code_allocator_commit (lines 170-207).  A GumCodePages that was
\* released while still in uncommitted_pages or dirty_pages is read after it
\* was freed: the process either gets away with it or dies.
gum_code_allocator_commit ==
  /\ ~crashed
  /\ \E survives \in BOOLEAN :
       /\ (\A b \in uncommitted_pages \cup dirty_pages : pages[b].live)
            => survives
       /\ crashed' = ~survives
       /\ commits' = [realized |-> IF survives THEN uncommitted_pages ELSE {},
                      flushed |-> IF survives THEN dirty_pages ELSE {},
                      due |-> handed_out,
                      again |-> commits # NULL]
       /\ IF survives
          THEN /\ uncommitted_pages' = {}
               /\ dirty_pages' = g_hash_table_remove_all(dirty_pages)
               /\ handed_out' = {}
               /\ IF rwx_supported
                  THEN UNCHANGED <<pages, free_slices>>
                  ELSE /\ pages' = UnrefEach(pages, free_slices)
                       /\ free_slices' = <<>>
               /\ result' = NULL
               /\ plain_allocs' = -1
          ELSE UNCHANGED <<uncommitted_pages, dirty_pages, pages, free_slices,
                           result, plain_allocs, handed_out>>
  /\ UNCHANGED <<rwx_supported, slice_size, slices_per_page, n_batches, held,
                 notAllocVars>>

\* Mutant of gum_code_slice_free: the slice is given up through
\* gum_code_pages_unref on every platform
gum_code_slice_free_unref ==
  /\ ~crashed
  /\ \E sl \in held :
       /\ held' = held \ {sl}
       /\ pages' = gum_code_pages_unref(pages, sl.pages)
       /\ free_slices' = free_slices
  /\ result' = NULL
  /\ plain_allocs' = -1
  /\ commits' = NULL
  /\ UNCHANGED <<rwx_supported, slice_size, slices_per_page, n_batches,
                 dirty_pages, uncommitted_pages, handed_out, crashed,
                 notAllocVars>>

\* gum_code_slice_free (lines 308-334), applied to a slice a caller holds
gum_code_slice_free ==
  /\ ~crashed
  /\ \E sl \in held :
       /\ held' = held \ {sl}
       /\ IF rwx_supported
          THEN /\ free_slices' = <<sl>> \o free_slices
               /\ pages' = pages
          ELSE /\ pages' = gum_code_pages_unref(pages, sl.pages)
               /\ free_slices' = free_slices
  /\ result' = NULL
  /\ plain_allocs' = -1
  /\ commits' = NULL
  /\ UNCHANGED <<rwx_supported, slice_size, slices_per_page, n_batches,
                 dirty_pages, uncommitted_pages, handed_out, crashed,
                 notAllocVars>>

NextAlloc ==
  \/ gum_code_allocator_alloc_slice
  \/ gum_code_allocator_try_alloc_slice_near
  \/ gum_code_allocator_commit
  \/ gum_code_slice_free

\* gum_code_allocator_init (lines 104-118), on a platform with or without
\* RWX pages
InitAlloc ==
  /\ InitCommon
  /\ arch = "x86_64"
  /\ dumpable = 0
  /\ dumpable_before = 0
  /\ SelfIdle
  /\ ConvIdle
  /\ rwx_supported \in BOOLEAN
  /\ slice_size \in SliceSizes
  /\ slices_per_page = PageSize \div slice_size
  /\ pages = [b \in 1..MaxBatches |-> NoPages]
  /\ n_batches = 0
  /\ free_slices = <<>>
  /\ dirty_pages = {}
  /\ uncommitted_pages = {}
  /\ held = {}
  /\ result = NULL
  /\ plain_allocs = 0
  /\ handed_out = {}
  /\ commits = NULL
  /\ crashed = FALSE
  /\ DeflIdle

SpecAlloc == InitAlloc /\ [][NextAlloc]_vars

(***************************************************************************)
(* The code deflector (gumcodeallocator.c, lines 369-599)                  *)
(***************************************************************************)

notDeflVars == <<arch, protocolVars, selfVars, convVars, allocVars>>

\* the executable ranges gum_process_enumerate_ranges reports, in the order
\* it reports them
RangeIds == 1..2
RangeBase(r) == (r - 1) * 16

\* cave_address = details->range->base_address + 8 (line 580)
CaveOffset == 8
CaveAddress(r) == RangeBase(r) + CaveOffset
RangeOf(address) == CHOOSE r \in RangeIds : CaveAddress(r) = address

\* what a range may start with: an ELF header with eight zero bytes behind
\* the magic, an ELF header with other bytes there, something else
RangeKinds == {[elf |-> TRUE, cave |-> "zero"],
               [elf |-> TRUE, cave |-> "code"],
               [elf |-> FALSE, cave |-> "zero"]}

\* the caller specs, return addresses and targets alloc_deflector is given
CallerSpecs == {[near_address |-> 16, max_distance |-> 8],
                [near_address |-> 32, max_distance |-> 8],
                [near_address |-> 40, max_distance |-> 4]}
ReturnAddresses == {1, 2}
Targets == {1, 2}

\* the GumCodeDeflectors that are registered: <<i, k>> is the k-th caller
\* of the i-th dispatcher
Deflectors ==
  UNION {{<<i, k>> : k \in 1..Len(dispatchers[i].callers)} :
           i \in 1..Len(dispatchers)}

\* Mutant of DispatcherInRange: no dispatcher is ever taken to be in range
DispatcherInRangeNone(d, caller) == FALSE

\* Mutant of DispatcherInRange: any dispatcher will do
DispatcherInRangeAny(d, caller) == TRUE

\* distance = ABS (d->address - caller->near_address);
\* distance <= caller->max_distance (lines 385-386)
DispatcherInRange(d, caller) ==
  Abs(d.address - caller.near_address) <= caller.max_distance

\* the loop over self->dispatchers (lines 380-391): the first dispatcher in
\* range, 0 if there is none
FirstDispatcher(caller) ==
  LET fit == {i \in 1..Len(dispatchers) :
                DispatcherInRange(dispatchers[i], caller)}
  IN IF fit = {} THEN 0 ELSE CHOOSE i \in fit : \A j \in fit : i <= j

\* Mutant of gum_probe_range_for_code_cave: the distance is not looked at
gum_probe_range_for_code_cave_anywhere(r, caller) ==
  /\ elf[r]
  /\ cave_bytes[r] = "zero"

\* gum_probe_range_for_code_cave (lines 574-599): whether the range is
\* taken, which ends the enumeration
gum_probe_range_for_code_cave(r, caller) ==
  /\ Abs(CaveAddress(r) - caller.near_address) <= caller.max_distance
  /\ elf[r]
  /\ cave_bytes[r] = "zero"

\* gum_process_enumerate_ranges (GUM_PAGE_RX, gum_probe_range_for_code_cave,
\* &ctx) (lines 457-468): the range whose cave is taken, 0 if none is
FindCave(caller) ==
  LET taken == {r \in RangeIds : gum_probe_range_for_code_cave(r, caller)}
  IN IF taken = {} THEN 0 ELSE CHOOSE r \in taken : \A q \in taken : r <= q

\* gum_code_deflector_dispatcher_ensure_rw (lines 556-564)
gum_code_deflector_dispatcher_ensure_rw(prot) ==
  IF rwx_supported THEN "rwx" ELSE "rw"

\* Mutant of gum_code_deflector_dispatcher_ensure_rx: the protection stays
gum_code_deflector_dispatcher_ensure_rx_keep(prot) == prot

\* gum_code_deflector_dispatcher_ensure_rx (lines 566-570)
gum_code_deflector_dispatcher_ensure_rx(prot) == "rx"

\* Mutant of memcpy: nothing is copied
memcpy_none(dest, src) == dest

\* memcpy (dispatcher->address, dispatcher->original_data,
\* dispatcher->original_size) (lines 526-527)
memcpy(dest, src) == src

\* gum_code_deflector_dispatcher_lookup (lines 539-554): the target of the
\* first caller registered for the return address, 0 (NULL) if there is none
gum_code_deflector_dispatcher_lookup(d, return_address) ==
  LET hits == {k \in 1..Len(d.callers) :
                 d.callers[k].return_address = return_address}
  IN IF hits = {} THEN 0
     ELSE d.callers[CHOOSE k \in hits : \A j \in hits : k <= j].target

\* Mutant of g_slist_delete_link: the first link goes, whichever was asked
g_slist_delete_link_head(list, k) == Tail(list)

\* g_slist_delete_link (dispatcher->callers, entry) (line 435)
g_slist_delete_link(list, k) ==
  [j \in 1..(Len(list) - 1) |-> IF j < k THEN list[j] ELSE list[j + 1]]

\* What alloc_deflector hands back, as far as the request goes: whether it
\* is a deflector at all, whether its dispatcher was there before, and
\* whether the trampoline and the dispatcher's address are in the caller's
\* range.
DeflectorReturned(d, caller, reused) ==
  IF d = NULL
  THEN [deflector |-> FALSE, reused |-> FALSE, near |-> TRUE,
        code_near |-> TRUE]
  ELSE [deflector |-> TRUE, reused |-> reused,
        near |-> Abs(d.trampoline - caller.near_address)
                   <= caller.max_distance,
        code_near |-> Abs(d.address - caller.near_address)
                        <= caller.max_distance]

\* lines 401-412: the new deflector, registered at the head of the
\* dispatcher's callers.  `caller` is kept with it for the properties only.
NewDeflector(d, caller, return_address, target) ==
  [return_address |-> return_address, target |-> target,
   trampoline |-> d.trampoline, caller |-> caller]

\* gum_code_allocator_alloc_deflector (lines 369-413), up to the point where
\* a new dispatcher's cave is made writable (line 496)
gum_code_allocator_alloc_deflector ==
  /\ dpc = "idle"
  /\ ~crashed
  /\ Cardinality(Deflectors) < MaxDeflectors
  /\ dfreed' = NULL
  /\ \E caller \in CallerSpecs, return_address \in ReturnAddresses,
        target \in Targets :
       LET i == FirstDispatcher(caller) IN
       IF i # 0
       THEN /\ dispatchers' =
                 [dispatchers EXCEPT ![i].callers =
                    <<NewDeflector(dispatchers[i], caller, return_address,
                                   target)>> \o @]
            /\ dresult' = DeflectorReturned(dispatchers[i], caller, TRUE)
            /\ UNCHANGED <<cave_bytes, cave_prot, thunk_prot, dpc, dcall>>
       ELSE LET r == FindCave(caller) IN
            IF r = 0
            THEN /\ dresult' = DeflectorReturned(NULL, caller, FALSE)
                 /\ UNCHANGED <<dispatchers, cave_bytes, cave_prot,
                                thunk_prot, dpc, dcall>>
            ELSE /\ dcall' = [caller |-> caller,
                              return_address |-> return_address,
                              target |-> target,
                              dispatcher |->
                                [address |-> CaveAddress(r),
                                 trampoline |-> CaveAddress(r),
                                 original_data |-> cave_bytes[r],
                                 callers |-> <<>>]]
                 /\ thunk_prot' = [thunk_prot EXCEPT ![r] = "rw"]
                 /\ cave_prot' =
                      IF have_arm
                      THEN [cave_prot EXCEPT ![r] =
                              gum_code_deflector_dispatcher_ensure_rw(@)]
                      ELSE cave_prot
                 /\ dpc' = "dispatcher_new"
                 /\ dresult' = NULL
                 /\ UNCHANGED <<dispatchers, cave_bytes>>
  /\ UNCHANGED <<teardowns, have_arm, elf, cave_initial, notDeflVars>>

\* the rest of gum_code_deflector_dispatcher_new (lines 498-519) and of
\* gum_code_allocator_alloc_deflector (lines 398-412)
gum_code_deflector_dispatcher_new ==
  /\ dpc = "dispatcher_new"
  /\ LET r == RangeOf(dcall.dispatcher.address)
         d == [dcall.dispatcher EXCEPT
                 !.trampoline = IF have_arm THEN @ + 1 ELSE @]
     IN /\ cave_bytes' = IF have_arm THEN [cave_bytes EXCEPT ![r] = "relay"]
                         ELSE cave_bytes
        /\ cave_prot' = [cave_prot EXCEPT ![r] =
                           gum_code_deflector_dispatcher_ensure_rx(@)]
        /\ thunk_prot' = [thunk_prot EXCEPT ![r] = "rx"]
        /\ dispatchers' =
             <<[d EXCEPT !.callers =
                  <<NewDeflector(d, dcall.caller, dcall.return_address,
                                 dcall.target)>>]>> \o dispatchers
        /\ dresult' = DeflectorReturned(d, dcall.caller, FALSE)
  /\ dpc' = "idle"
  /\ dcall' = NULL
  /\ UNCHANGED <<teardowns, have_arm, elf, cave_initial, dfreed, notDeflVars>>

\* What gum_code_deflector_free was given: the registration, the address of
\* the dispatcher it was found in, how many dispatchers there were, whether
\* the dispatcher's callers had return addresses of their own each, and
\* whether it was the dispatcher's last caller.
Freed(deflector, d, last) ==
  [last |-> last,
   return_address |-> deflector.return_address,
   target |-> deflector.target,
   address |-> d.address,
   n_dispatchers |-> Len(dispatchers),
   distinct |-> \A j, k \in 1..Len(d.callers) :
                  d.callers[j].return_address = d.callers[k].return_address
                    => j = k]

\* gum_code_deflector_free (lines 415-448), applied to a registered
\* deflector, up to the point where the cave of a dispatcher that lost its
\* last caller is made writable (line 525)
gum_code_deflector_free ==
  /\ dpc = "idle"
  /\ ~crashed
  /\ dresult' = NULL
  /\ \E slot \in Deflectors :
       LET i == slot[1]
           entry == slot[2]
           deflector == dispatchers[i].callers[entry]
           callers == g_slist_delete_link(dispatchers[i].callers, entry)
           r == RangeOf(dispatchers[i].address)
       IN /\ dispatchers' = [dispatchers EXCEPT ![i].callers = callers]
          /\ IF callers # <<>>
             THEN /\ dfreed' = Freed(deflector, dispatchers[i], FALSE)
                  /\ UNCHANGED <<cave_prot, dpc, dcall>>
             ELSE /\ cave_prot' = [cave_prot EXCEPT ![r] =
                                     gum_code_deflector_dispatcher_ensure_rw(@)]
                  /\ dpc' = "dispatcher_free"
                  /\ dcall' = [deflector |-> deflector, index |-> i,
                               dispatcher |-> dispatchers[i]]
                  /\ dfreed' = NULL
  /\ UNCHANGED <<teardowns, have_arm, elf, cave_initial, cave_bytes, thunk_prot,
                 notDeflVars>>

\* the rest of gum_code_deflector_dispatcher_free (lines 526-536) and of
\* gum_code_deflector_free (lines 439-443)
gum_code_deflector_dispatcher_free ==
  /\ dpc = "dispatcher_free"
  /\ LET d == dispatchers[dcall.index]
         r == RangeOf(d.address)
     IN /\ cave_bytes' = [cave_bytes EXCEPT ![r] = memcpy(@, d.original_data)]
        /\ cave_prot' = [cave_prot EXCEPT ![r] =
                           gum_code_deflector_dispatcher_ensure_rx(@)]
        /\ thunk_prot' = [thunk_prot EXCEPT ![r] = "none"]
        /\ dispatchers' = g_slist_delete_link(dispatchers, dcall.index)
        /\ dfreed' = Freed(dcall.deflector, dcall.dispatcher, TRUE)
  /\ dpc' = "idle"
  /\ dcall' = NULL
  /\ UNCHANGED <<teardowns, have_arm, elf, cave_initial, dresult, notDeflVars>>

NextDefl ==
  \/ gum_code_allocator_alloc_deflector
  \/ gum_code_deflector_dispatcher_new
  \/ gum_code_deflector_free
  \/ gum_code_deflector_dispatcher_free

\* the executable ranges of the process and the build, for every range a
\* kind out of `kinds`, with HAVE_ARM as `arm` allows
DeflInit(kinds, arm) ==
  /\ have_arm \in arm
  /\ \E kind \in [RangeIds -> kinds], prot \in {"rx", "rwx"} :
       /\ elf = [r \in RangeIds |-> kind[r].elf]
       /\ cave_bytes = [r \in RangeIds |-> kind[r].cave]
       /\ cave_initial = [r \in RangeIds |-> kind[r].cave]
       /\ cave_prot = [r \in RangeIds |-> prot]
  /\ thunk_prot = [r \in RangeIds |-> "none"]
  /\ dispatchers = <<>>
  /\ dpc = "idle"
  /\ dcall = NULL
  /\ dresult = NULL
  /\ dfreed = NULL
  /\ teardowns = NULL

\* gum_code_allocator_init (lines 104-118) for slices of one of the sizes
\* `sizes`, on a platform with or without RWX pages
AllocatorInit(sizes) ==
  /\ InitCommon
  /\ arch = "x86_64"
  /\ dumpable = 0
  /\ dumpable_before = 0
  /\ SelfIdle
  /\ ConvIdle
  /\ rwx_supported \in BOOLEAN
  /\ slice_size \in sizes
  /\ slices_per_page = PageSize \div slice_size
  /\ pages = [b \in 1..MaxBatches |-> NoPages]
  /\ n_batches = 0
  /\ free_slices = <<>>
  /\ dirty_pages = {}
  /\ uncommitted_pages = {}
  /\ held = {}
  /\ result = NULL
  /\ plain_allocs = 0
  /\ handed_out = {}
  /\ commits = NULL
  /\ crashed = FALSE

\* an allocator used for deflectors only
InitDefl ==
  /\ AllocatorInit({PageSize})
  /\ DeflInit(RangeKinds, BOOLEAN)

SpecDefl == InitDefl /\ [][NextDefl]_vars

\* an allocator used for slices and for deflectors, in a process with an
\* empty cave in its first range
InitAllocator ==
  /\ AllocatorInit({PageSize})
  /\ DeflInit({[elf |-> TRUE, cave |-> "zero"]}, {TRUE})
  /\ cave_prot[1] = "rx"

NextAllocator == NextAlloc \/ NextDefl

SpecAllocator == InitAllocator /\ [][NextAllocator]_vars

\* g_slist_foreach (dispatcher->callers, (GFunc) gum_code_deflector_free,
\* NULL) (line 533) and gum_code_deflector_dispatcher_free (lines 522-537)
\* as allocator_free runs them: how many times the body of
\* gum_code_deflector_dispatcher_free is executed for one dispatcher.  Each
\* gum_code_deflector_free finds its deflector in the dispatcher, which is
\* still in allocator->dispatchers, and unlinks it (line 435); the one that
\* leaves no caller behind calls gum_code_deflector_dispatcher_free on the
\* dispatcher (line 438), which is the dispatcher being torn down.
RECURSIVE ForeachCallerFree(_)
RECURSIVE DispatcherFreeRuns(_)
ForeachCallerFree(callers) ==
  IF callers = <<>> THEN 0
  ELSE LET left == Tail(callers)
       IN (IF left = <<>> THEN DispatcherFreeRuns(left) ELSE 0)
            + ForeachCallerFree(left)
DispatcherFreeRuns(callers) == 1 + ForeachCallerFree(callers)

\* gum_code_allocator_free (lines 120-134).  A dispatcher whose teardown is
\* run a second time has its cave written from original_data after
\* original_data was freed, and original_data, the thunk and the dispatcher
\* freed twice: the cave ends up with its original bytes or with whatever
\* the freed buffer held, and the process gets away with the double free
\* or dies at the first one.
gum_code_allocator_free ==
  /\ dpc = "idle"
  /\ ~crashed
  /\ teardowns = NULL
  /\ LET runs == [i \in 1..Len(dispatchers) |->
                   DispatcherFreeRuns(dispatchers[i].callers)]
         twice == {i \in 1..Len(dispatchers) : runs[i] > 1}
     IN \E survives, intact \in BOOLEAN :
          LET done == IF survives \/ twice = {} THEN 1..Len(dispatchers)
                      ELSE 1..(CHOOSE i \in twice : \A j \in twice : i <= j)
              caves == {RangeOf(dispatchers[i].address) : i \in done}
              At(r) == CHOOSE i \in done : RangeOf(dispatchers[i].address) = r
          IN /\ twice = {} => survives /\ intact
             /\ crashed' = ~survives
             /\ teardowns' = [r \in RangeIds |->
                                IF r \in caves THEN runs[At(r)] ELSE 0]
             /\ cave_bytes' =
                  [r \in RangeIds |->
                     IF r \notin caves THEN cave_bytes[r]
                     ELSE IF runs[At(r)] = 1 \/ intact
                     THEN memcpy(cave_bytes[r], dispatchers[At(r)].original_data)
                     ELSE "freed"]
             /\ cave_prot' =
                  [r \in RangeIds |->
                     IF r \in caves
                     THEN gum_code_deflector_dispatcher_ensure_rx(cave_prot[r])
                     ELSE cave_prot[r]]
             /\ thunk_prot' = [r \in RangeIds |->
                                 IF r \in caves THEN "none" ELSE thunk_prot[r]]
             /\ IF survives
                THEN /\ dispatchers' = <<>>
                     /\ pages' = UnrefEach(pages, free_slices)
                     /\ free_slices' = <<>>
                     /\ dirty_pages' = {}
                     /\ uncommitted_pages' = {}
                ELSE UNCHANGED <<dispatchers, pages, free_slices, dirty_pages,
                                 uncommitted_pages>>
  /\ dpc' = "freed"
  /\ dcall' = NULL
  /\ dresult' = NULL
  /\ dfreed' = NULL
  /\ UNCHANGED <<have_arm, elf, cave_initial, rwx_supported, slice_size,
                 slices_per_page, n_batches, held, result, plain_allocs,
                 handed_out, commits, arch, protocolVars, selfVars, convVars>>

\* an allocator used for deflectors and then freed
NextFree == NextDefl \/ gum_code_allocator_free

SpecFree == InitDefl /\ [][NextFree]_vars

TypeOK ==
  /\ calls \in 0..MaxCalls
  /\ gum_dumpable_refcount \in 0..Cardinality(Sessions)
  /\ \A s \in Sessions : Len(toHelper[s]) <= 2 /\ Len(toParent[s]) <= 2
  /\ \A t \in Threads : tregs[t] \in RegsValues /\ tracer[t] \in Sessions \cup {0}

(***************************************************************************)
(* Properties                                                              *)
(***************************************************************************)

Count(seq, e) == Cardinality({i \in 1..Len(seq) : seq[i] = e})
Has(seq, e) == \E i \in 1..Len(seq) : seq[i] = e
Rank(e) == CASE e = "read" -> 1 [] e = "cb_start" -> 2 [] e = "cb_end" -> 3
             [] e = "write" -> 4 [] e = "detach" -> 5
ProtocolSteps == {"attach", "wait", "stop", "read", "write", "detach"}

\* C1: in every other-thread modify_thread call the callback is invoked at
\* most once, and exactly once in every call that returns success.
C1_CallbackOnce ==
  \A s \in Sessions :
    /\ Count(trace[s], "cb_start") <= 1
    /\ success[s] => Count(trace[s], "cb_start") = 1 /\ Has(trace[s], "cb_end")

C1_Witness ==
  \E s \in Sessions :
    ppc[s] = "returned" /\ success[s] /\ Count(trace[s], "cb_start") = 1

\* C2: within one call the events are totally ordered: the register read
\* returns before the callback starts, the callback returns before the
\* register write starts, the write returns before the detach request; while
\* the callback runs the helper is parked waiting for MODIFIED_CONTEXT.
C2_Ordering ==
  \A s \in Sessions :
    /\ \A i, j \in 1..Len(trace[s]) : i < j => Rank(trace[s][i]) < Rank(trace[s][j])
    /\ Has(trace[s], "cb_start") => Has(trace[s], "read")
    /\ Has(trace[s], "write") => Has(trace[s], "cb_end")
    /\ ppc[s] \in {"callback", "in_callback", "put_modified"}
         => hpc[s] = "await_modified"
    /\ hpc[s] \in {"set_regs", "setregset", "setregs"} => Has(trace[s], "cb_end")

C2_Witness ==
  \E s \in Sessions :
    trace[s] = <<"read", "cb_start", "cb_end", "write", "detach">>

\* C3: a call returns success iff the helper's final ack is WROTE_CONTEXT,
\* and the helper sends WROTE_CONTEXT only when attach, wait, stop check,
\* register read, register write and detach all succeeded.
C3_Claim ==
  \A s \in Sessions :
    /\ ppc[s] = "returned" => (success[s] <=> hack[s] = GUM_ACK_WROTE_CONTEXT)
    /\ hack[s] = GUM_ACK_WROTE_CONTEXT => failed[s] \cap ProtocolSteps = {}

\* C4: if attach, wait, the stop check or the register read fails, the
\* callback is never invoked in that call and the call returns failure.
C4_Claim ==
  \A s \in Sessions :
    failed[s] \cap {"attach", "wait", "stop", "read"} # {}
      => ~Has(trace[s], "cb_start") /\ ~success[s]

\* C5: if the register write-back or the detach fails after the callback has
\* run, modify_thread returns failure.
C5_Claim ==
  \A s \in Sessions :
    Has(trace[s], "cb_end") /\ failed[s] \cap {"write", "detach"} # {}
      => ~success[s]

InSession(s) == Has(trace[s], "read") /\ ~Has(trace[s], "detach")

\* C8: when two calls against the same thread overlap, the call whose attach
\* fails invokes no callback, makes no register write and returns failure,
\* and the two helpers are never both between register read and detach.
C8_SingleAttacher ==
  /\ \A s \in Sessions :
       "attach" \in failed[s]
         => /\ ~Has(trace[s], "cb_start")
            /\ ~Has(trace[s], "read") /\ ~Has(trace[s], "write")
            /\ ~success[s]
  /\ \A s1, s2 \in Sessions :
       s1 # s2 /\ thread_id[s1] = thread_id[s2]
         => ~(InSession(s1) /\ InSession(s2))

\* one call is refused at attach (no kernel call was made to fail) while the
\* other call's callback runs on the same thread
C8_Witness ==
  \E s1, s2 \in Sessions :
    /\ s1 # s2 /\ thread_id[s1] = thread_id[s2]
    /\ faults = 0
    /\ "attach" \in failed[s2]
    /\ ppc[s1] = "in_callback"

\* C9: when no kernel call fails, a call that is not refused at attach
\* succeeds, its callback gets the registers of its own target, its target
\* is written with its own callback's output, and no thread ever holds a
\* register value of another thread.
C9_NoCrossObservation ==
  faults = 0 =>
    /\ \A t \in Threads :
         OwnerOf(tregs[t].pc) = t /\ tregs[t].extra = InitialRegs(t).extra
    /\ \A s \in Sessions :
         /\ ppc[s] = "in_callback"
              => cpu_context[s].pc = tregs[thread_id[s]].pc
         /\ hpc[s] = "detach"
              => tregs[thread_id[s]].pc = cpu_context[s].pc
         /\ ppc[s] = "returned" /\ failed[s] = {} => success[s]

\* both calls have returned success on distinct threads, each thread changed
\* by its own callback
C9_Witness ==
  /\ faults = 0
  /\ \A s \in Sessions : ppc[s] = "returned" /\ success[s] /\ cb[s] = "bump"
  /\ thread_id[1] # thread_id[2]
  /\ \A t \in Threads : tregs[t].pc = 2 * t + 1

\* C10: whenever the counter is positive outside the lock's critical section
\* and the query of the flag succeeded, the dumpable flag is on.
C10_DumpableWhileHeld ==
  (gum_dumpable_lock = 0 /\ gum_dumpable_refcount > 0
     /\ gum_dumpable_previous # -1)
    => dumpable = 1

\* two holders, the flag forced on in a process that was not dumpable
C10_Witness ==
  /\ gum_dumpable_lock = 0
  /\ gum_dumpable_refcount = 2
  /\ gum_dumpable_previous = 0
  /\ dumpable = 1

\* C11: once the counter is back at zero (outside the critical section) the
\* dumpable flag has the value it had before the first acquire.
C11_Claim ==
  (gum_dumpable_lock = 0 /\ gum_dumpable_refcount = 0)
    => dumpable = dumpable_before

\* C11, the part about the releases that leave the counter positive: the flag
\* changes only in the first acquire and in the release that brought the
\* counter to zero.
C11_FlagChangesOnlyAtEnds ==
  [][dumpable' # dumpable =>
       \E s \in Sessions :
         /\ gum_dumpable_lock = s
         /\ \/ ppc[s] = "acq_set" /\ gum_dumpable_refcount = 1
            \/ ppc[s] = "rel_set" /\ gum_dumpable_refcount = 0]_vars

\* a call has come and gone in a process whose flag was 0, and the flag is 0
\* again
C11_Restored ==
  /\ gum_dumpable_lock = 0 /\ gum_dumpable_refcount = 0
  /\ \E s \in Sessions : ppc[s] = "returned" /\ success[s]
  /\ dumpable_before = 0 /\ dumpable = 0

\* C12: a call against the calling thread, on a runtime with
\* getcontext/setcontext, invokes the callback at most once; when execution
\* is back in the block after setcontext the guard is set and the callback has
\* run exactly once, and a call that returns has run it once and returns
\* success.
C12_SelfCallbackOnce ==
  has_getcontext =>
    /\ func_calls <= 1
    /\ (spc = "test_modified" /\ cpu = uc /\ func_calls > 0) => modified
    /\ spc \in {"success", "return", "returned"} => func_calls = 1
    /\ spc = "returned" => self_success

\* the call has returned after the context was captured, passed to the
\* callback and installed again
C12_Witness ==
  /\ has_getcontext
  /\ spc = "returned"
  /\ modified
  /\ func_calls = 1
  /\ self_success

\* C13: in an other-thread session the buffer handed to the register write
\* agrees with what the register read left in it on every register the
\* callback did not change: it is that buffer when the callback left the
\* context as it was, and it has the same general-purpose, status and
\* unrepresented registers whatever the callback did to pc.
C13_UnchangedWrittenBack ==
  \A s \in Sessions :
    hpc[s] \in {"set_regs", "setregset", "setregs", "detach"} =>
      /\ cb[s] = "keep" => regs[s] = regs_read[s]
      /\ regs[s].gp = regs_read[s].gp
      /\ regs[s].flags = regs_read[s].flags
      /\ regs[s].extra = regs_read[s].extra

\* on ARM64, where the context's nzcv is 0 whatever pstate holds, a session
\* with a callback that changes nothing has written the buffer back
C13_Witness ==
  \E s \in Sessions :
    /\ arch = "arm64"
    /\ hpc[s] = "detach"
    /\ cb[s] = "keep"
    /\ failed[s] = {}
    /\ regs_read[s] = InitialRegs(thread_id[s])
    /\ regs_read[s].flags # cpu_context[s].flags
    /\ tregs[thread_id[s]] = regs_read[s]

\* C14: on every architecture a context converted to the kernel register
\* buffer and parsed back, or converted to the saved context and parsed back,
\* is the context that went in, field for field.
C14_Claim ==
  /\ conv_regs_step = 2 => conv_out_regs = conv_in
  /\ conv_uc_step = 2 => conv_out_uc = conv_in

\* C14, the part that holds: pc and the general-purpose registers come back
\* on every architecture, and the whole context on x86, x86-64 and MIPS.
C14_IntegerRegistersRoundTrip ==
  /\ conv_regs_step = 2 =>
       /\ conv_out_regs.pc = conv_in.pc /\ conv_out_regs.gp = conv_in.gp
       /\ arch \in {"x86", "x86_64", "mips"} => conv_out_regs = conv_in
  /\ conv_uc_step = 2 =>
       /\ conv_out_uc.pc = conv_in.pc /\ conv_out_uc.gp = conv_in.gp
       /\ arch \in {"x86", "x86_64", "mips"} => conv_out_uc = conv_in

\* the slices of batch b: on the free list, in callers' hands
FreeOf(b) == {i \in 1..Len(free_slices) : free_slices[i].pages = b}
HeldOf(b) == {sl \in held : sl.pages = b}
SlicesOf(b) == {[pages |-> b, index |-> i] : i \in 0..(slices_per_page - 1)}
OnFreeList(sl) == \E i \in 1..Len(free_slices) : free_slices[i] = sl

\* C15: a slice returned for a non-null spec has its first and its last byte
\* within max_distance of near_address.
C15_Claim ==
  (result # NULL /\ result.slice /\ result.constrained) => result.near

\* C15, the part that holds: a slice taken from the free list is near.
C15_FreeListSliceIsNear ==
  (result # NULL /\ result.slice /\ result.constrained /\ ~result.fresh)
    => result.near

\* C16: a slice returned for a nonzero alignment has an address that is a
\* multiple of the alignment.
C16_Claim ==
  (result # NULL /\ result.slice /\ result.aligning) => result.aligned

\* C16, the part that holds: a slice taken from the free list is aligned.
C16_FreeListSliceIsAligned ==
  (result # NULL /\ result.slice /\ result.aligning /\ ~result.fresh)
    => result.aligned

\* C17: no allocation returns a slice that a caller still holds, no slice is
\* on the free list while held, none is on the free list twice, and the
\* slices in use are in live batches at addresses of their own.
C17_NoDoubleOwnership ==
  /\ result # NULL => ~result.was_held
  /\ \A i \in 1..Len(free_slices) : free_slices[i] \notin held
  /\ \A i, j \in 1..Len(free_slices) : free_slices[i] = free_slices[j] => i = j
  /\ \A sl \in held : pages[sl.pages].live
  /\ \A sl, other \in held \cup {free_slices[i] : i \in 1..Len(free_slices)} :
       sl # other => SliceAddress(sl) # SliceAddress(other)

\* a slice that was freed has been handed out again while another is held
C17_Witness ==
  /\ result # NULL /\ result.slice /\ ~result.fresh
  /\ \E sl \in held : sl.index = 0 /\ sl.pages = 1 /\ n_batches = 2
  /\ Cardinality(held) = 2
  /\ free_slices # <<>>

\* C18 as stated: a live batch's ref_count is the number of its slices that
\* callers hold.
C18_Claim ==
  \A b \in 1..MaxBatches :
    pages[b].live => pages[b].ref_count = Cardinality(HeldOf(b))

\* C18 as the code has it: a live batch's ref_count is the number of its
\* slices that callers hold plus the number of its slices on the free list,
\* and a batch that is not live has neither.
C18_RefCountCountsHeldAndFree ==
  \A b \in 1..MaxBatches :
    IF pages[b].live
    THEN pages[b].ref_count = Cardinality(HeldOf(b)) + Cardinality(FreeOf(b))
    ELSE HeldOf(b) = {} /\ FreeOf(b) = {}

\* without RWX pages, after a commit dropped the free slice and one of two
\* slices was given back: one reference for the one slice still held
C18_Witness ==
  /\ ~rwx_supported
  /\ slices_per_page = 2
  /\ n_batches = 2
  /\ pages[1].live /\ pages[1].ref_count = 1
  /\ Cardinality(HeldOf(1)) = 1
  /\ ~pages[2].live

\* C19: as long as only alloc_slice was called, on an allocator that started
\* with an empty free list, the number of batches allocated is the number of
\* calls divided by the slices per page, rounded up.
C19_BatchesForPlainAllocs ==
  plain_allocs >= 0 =>
    n_batches = (plain_allocs + slices_per_page - 1) \div slices_per_page

\* three calls with two slices to the page: two batches
C19_Witness ==
  /\ plain_allocs = 3
  /\ slices_per_page = 2
  /\ n_batches = 2
  /\ Len(free_slices) = 1

\* C20: with RWX pages no batch is ever released by free_slice, and every
\* slice of a batch is either in a caller's hands or on the free list, so
\* that once all slices of a batch were freed all of them are on the free
\* list.
C20_FreeKeepsBatch ==
  rwx_supported =>
    \A b \in 1..n_batches :
      /\ pages[b].live
      /\ \A sl \in SlicesOf(b) : (sl \in held) # OnFreeList(sl)

\* both slices of the first batch were handed out and freed, the first one
\* first
C20_Witness ==
  /\ rwx_supported
  /\ slices_per_page = 2
  /\ held = {}
  /\ free_slices = <<[pages |-> 1, index |-> 1], [pages |-> 1, index |-> 0]>>
  /\ pages[1].live

\* C21 as stated: without RWX pages a batch's memory is there exactly as long
\* as a caller holds one of its slices, so that freeing the last slice held
\* releases it.
C21_Claim ==
  ~rwx_supported =>
    \A b \in 1..n_batches : pages[b].live <=> HeldOf(b) # {}

\* C21 as the code has it: without RWX pages a batch's memory is there
\* exactly as long as one of its slices is held or on the free list, so that
\* freeing the last slice held releases it when the free list has none of
\* the batch's slices, and never while a slice is held.
C21_ReleasedWhenNoSliceLeft ==
  ~rwx_supported =>
    \A b \in 1..n_batches :
      pages[b].live <=> (HeldOf(b) # {} \/ FreeOf(b) # {})

\* a batch of two slices whose free slice a commit discarded, released by
\* the free_slice of the slice that was held
C21_Witness ==
  /\ ~rwx_supported
  /\ slices_per_page = 2
  /\ n_batches = 1
  /\ ~pages[1].live
  /\ dirty_pages = {}
  /\ result = NULL /\ commits = NULL
  /\ ~crashed

\* C22: a commit leaves the dirty set empty, having flushed the instruction
\* cache of every batch a slice was handed out from since the commit before.
C22_Claim ==
  commits # NULL =>
    /\ dirty_pages = {}
    /\ commits.flushed = commits.due

\* C22, the part that holds: a commit that finds every batch it is to flush
\* still allocated does as C22 says.
C22_CommitOfLiveBatches ==
  (commits # NULL /\ ~crashed) =>
    /\ dirty_pages = {}
    /\ commits.flushed = commits.due

\* C23: a commit that follows a commit flushes nothing and realizes and maps
\* nothing.
C23_SecondCommitDoesNothing ==
  (commits # NULL /\ commits.again) =>
    /\ commits.flushed = {}
    /\ commits.realized = {}

\* a second commit in a row, on an allocator without RWX pages whose first
\* commit had a batch to realize and flush
C23_Witness ==
  /\ commits # NULL /\ commits.again
  /\ ~rwx_supported
  /\ held # {}
  /\ ~crashed

\* C30: a helper whose PTRACE_ATTACH succeeded requests PTRACE_DETACH with
\* SIGCONT before it exits, whichever way it leaves, and requests it once.
C30_DetachOnce ==
  \A s \in Sessions :
    "attach" \notin failed[s] =>
      /\ Count(trace[s], "detach") <= 1
      /\ hpc[s] \in {"exit", "exited", "reaped"} =>
           Count(trace[s], "detach") = 1

\* a helper that attached, saw a later step fail, reported the failure and
\* has exited
C30_Witness ==
  \E s \in Sessions :
    /\ hpc[s] = "exited"
    /\ "attach" \notin failed[s]
    /\ failed[s] \cap {"wait", "stop", "read", "write"} # {}
    /\ hack[s] \in {GUM_ACK_FAILED_TO_WAIT, GUM_ACK_FAILED_TO_STOP,
                    GUM_ACK_FAILED_TO_READ, GUM_ACK_FAILED_TO_WRITE}
    /\ Count(trace[s], "detach") = 1

\* the registrations there are, and the code caves in a caller's range
LiveDeflectors ==
  {dispatchers[slot[1]].callers[slot[2]] : slot \in Deflectors}
CavesInRange(caller) ==
  {r \in RangeIds :
     /\ elf[r]
     /\ cave_initial[r] = "zero"
     /\ Abs(CaveAddress(r) - caller.near_address) <= caller.max_distance}
DispatcherAt(address) ==
  {i \in 1..Len(dispatchers) : dispatchers[i].address = address}

\* C24: a step in which alloc_slice_near returns no slice leaves the free
\* list, the dirty set, the uncommitted list and the batches as they were,
\* and a step in which alloc_deflector returns no deflector leaves the
\* dispatchers, their registrations, the caves and the thunks as they were.
C24_FailedAllocLeavesNoTrace ==
  [][/\ (result' # NULL /\ ~result'.slice) =>
          UNCHANGED <<free_slices, dirty_pages, uncommitted_pages, pages, held>>
     /\ (dresult' # NULL /\ ~dresult'.deflector) =>
          UNCHANGED <<dispatchers, cave_bytes, cave_prot, thunk_prot>>]_vars

\* both kinds of allocation have failed on an allocator that has free
\* slices, dirty batches and a dispatcher with a registration
C24_Witness ==
  /\ result # NULL /\ ~result.slice
  /\ dresult # NULL /\ ~dresult.deflector
  /\ free_slices # <<>>
  /\ dirty_pages # {}
  /\ dispatchers # <<>>

\* C25 as stated: the trampoline of a deflector that alloc_deflector
\* returned is within max_distance of near_address.
C25_Claim ==
  (dresult # NULL /\ dresult.deflector) => dresult.near

\* C25 as the code has it: the address of the dispatcher a deflector is
\* routed through (its trampoline, less the Thumb bit in an ARM build) is
\* within max_distance of near_address, for a dispatcher that was there as
\* for a new one.
C25_DispatcherAddressNear ==
  /\ (dresult # NULL /\ dresult.deflector) => dresult.code_near
  /\ \A slot \in Deflectors :
       LET d == dispatchers[slot[1]]
           e == d.callers[slot[2]]
       IN /\ Abs(d.address - e.caller.near_address) <= e.caller.max_distance
          /\ e.trampoline = d.address + (IF have_arm THEN 1 ELSE 0)

\* an ARM build: a dispatcher was created for one caller and a deflector
\* for another caller was routed through it
C25_Witness ==
  /\ have_arm
  /\ dresult # NULL /\ dresult.deflector /\ dresult.reused
  /\ Len(dispatchers) = 1
  /\ Len(dispatchers[1].callers) = 2
  /\ dispatchers[1].callers[1].caller # dispatchers[1].callers[2].caller

\* C26 as stated: two deflectors whose caller specs have a code cave in the
\* range of both have the same trampoline.
C26_Claim ==
  \A e1, e2 \in LiveDeflectors :
    CavesInRange(e1.caller) \cap CavesInRange(e2.caller) # {}
      => e1.trampoline = e2.trampoline

\* C26 as the code has it: two deflectors whose caller specs have one code
\* cave in range, the same for both, and no other have the same trampoline.
C26_SameOnlyCave ==
  \A e1, e2 \in LiveDeflectors :
    (\E r \in RangeIds :
       CavesInRange(e1.caller) \cup CavesInRange(e2.caller) = {r})
      => e1.trampoline = e2.trampoline

\* two deflectors for different callers that have the second cave in range
\* and no other
C26_Witness ==
  \E e1, e2 \in LiveDeflectors :
    /\ e1.caller # e2.caller
    /\ CavesInRange(e1.caller) = {2}
    /\ CavesInRange(e2.caller) = {2}
    /\ have_arm

\* C27 as stated: after one of several registrations of a dispatcher was
\* freed the dispatcher is in the list as it was, its cave and thunk are as
\* dispatcher creation left them, every remaining registration's return
\* address is looked up to its target, and the freed return address is not
\* looked up to the freed target.
C27_Claim ==
  (dpc = "idle" /\ dfreed # NULL /\ ~dfreed.last) =>
    /\ Len(dispatchers) = dfreed.n_dispatchers
    /\ \E i \in DispatcherAt(dfreed.address) :
         LET d == dispatchers[i]
             r == RangeOf(d.address)
         IN /\ d.callers # <<>>
            /\ cave_bytes[r] = (IF have_arm THEN "relay" ELSE cave_initial[r])
            /\ thunk_prot[r] = "rx"
            /\ \A k \in 1..Len(d.callers) :
                 gum_code_deflector_dispatcher_lookup(
                   d, d.callers[k].return_address) = d.callers[k].target
            /\ gum_code_deflector_dispatcher_lookup(d, dfreed.return_address)
                 # dfreed.target

\* C27 as the code has it: the same, for a dispatcher whose registrations
\* had a return address of their own each.
C27_OthersStayRoutable ==
  (dpc = "idle" /\ dfreed # NULL /\ ~dfreed.last /\ dfreed.distinct) =>
    /\ Len(dispatchers) = dfreed.n_dispatchers
    /\ \E i \in DispatcherAt(dfreed.address) :
         LET d == dispatchers[i]
             r == RangeOf(d.address)
         IN /\ d.callers # <<>>
            /\ cave_bytes[r] = (IF have_arm THEN "relay" ELSE cave_initial[r])
            /\ thunk_prot[r] = "rx"
            /\ \A k \in 1..Len(d.callers) :
                 gum_code_deflector_dispatcher_lookup(
                   d, d.callers[k].return_address) = d.callers[k].target
            /\ gum_code_deflector_dispatcher_lookup(d, dfreed.return_address)
                 # dfreed.target

\* an ARM build: one of two registrations with different return addresses
\* was freed
C27_Witness ==
  /\ dpc = "idle"
  /\ dfreed # NULL /\ ~dfreed.last /\ dfreed.distinct
  /\ have_arm
  /\ \E i \in DispatcherAt(dfreed.address) : Len(dispatchers[i].callers) = 1

\* C28: between calls no dispatcher in the list is without registrations,
\* and a cave that has no dispatcher holds the bytes it held at first and
\* has no thunk; the dispatcher whose last registration was freed is not in
\* the list.
C28_LastFreeRestores ==
  dpc = "idle" =>
    /\ \A i \in 1..Len(dispatchers) : dispatchers[i].callers # <<>>
    /\ \A r \in RangeIds :
         DispatcherAt(CaveAddress(r)) = {} =>
           /\ cave_bytes[r] = cave_initial[r]
           /\ thunk_prot[r] = "none"
    /\ (dfreed # NULL /\ dfreed.last) =>
         /\ DispatcherAt(dfreed.address) = {}
         /\ Len(dispatchers) = dfreed.n_dispatchers - 1

\* an ARM build: the last registration of one of two dispatchers was freed
C28_Witness ==
  /\ dpc = "idle"
  /\ dfreed # NULL /\ dfreed.last
  /\ have_arm
  /\ Len(dispatchers) = 1

\* C29: between calls the cave and the thunk page of every dispatcher in
\* the list are read+execute, not writable.
C29_NotWritableAtRest ==
  dpc = "idle" =>
    \A i \in 1..Len(dispatchers) :
      /\ cave_prot[RangeOf(dispatchers[i].address)] = "rx"
      /\ thunk_prot[RangeOf(dispatchers[i].address)] = "rx"

\* an ARM build without RWX pages: two dispatchers, the last call created
\* one of them
C29_Witness ==
  /\ dpc = "idle"
  /\ have_arm
  /\ ~rwx_supported
  /\ Len(dispatchers) = 2
  /\ dresult # NULL /\ dresult.deflector /\ ~dresult.reused

(***************************************************************************)
(* The rendezvous and the register-set latch                               *)
(***************************************************************************)

\* C31: the helper never issues PTRACE_ATTACH before the parent has acquired
\* dumpability and designated the helper as permitted tracer: while the
\* helper stands at the attach request, the parent has completed
\* gum_acquire_dumpability (the counter is held, the lock is released), is
\* past PR_SET_PTRACER with the helper's id, has sent READY, which the helper
\* has consumed, and is waiting for the helper's answer.  (Whether the
\* designation is still in force is not part of the claim: another call's
\* PR_SET_PTRACER replaces it.)
C31_AttachAfterReady ==
  \A s \in Sessions :
    hpc[s] = "attach" =>
      /\ ppc[s] = "await_read"
      /\ gum_dumpable_refcount >= 1
      /\ gum_dumpable_lock # s
      /\ child[s] = ChildPid(s)
      /\ toHelper[s] = <<>>

\* the helper has attached to the target while the parent waits
C31_Witness ==
  \E s \in Sessions :
    /\ hpc[s] = "wait"
    /\ attached[s]
    /\ tracer[thread_id[s]] = s
    /\ ppc[s] = "await_read"
    /\ ptracer = ChildPid(s)


\* C32: every other-thread call terminates whatever the outcomes of its
\* steps: a parent blocked in gum_await_ack on an empty channel has a helper
\* that is on its way to a gum_put_ack, and a helper blocked in gum_await_ack
\* on an empty channel has a parent that is on its way to a gum_put_ack.
C32_Claim ==
  \A s \in Sessions :
    /\ (ppc[s] = "await_read" /\ toParent[s] = <<>>) =>
         hpc[s] \in {"await_ready", "attach", "wait", "get_regs", "getregset",
                     "getregs", "put_ack"}
    /\ (ppc[s] = "await_wrote" /\ toParent[s] = <<>>) =>
         hpc[s] \in {"await_modified", "set_regs", "setregset", "setregs",
                     "detach", "put_ack"}
    /\ (hpc[s] = "await_ready" /\ toHelper[s] = <<>>) =>
         ppc[s] \in {"acq_lock", "acq_query", "acq_set", "acq_unlock",
                     "set_ptracer", "put_ready"}
    /\ (hpc[s] = "await_modified" /\ toHelper[s] = <<>>) =>
         ppc[s] \in {"await_read", "callback", "in_callback", "put_modified"}


\* C33: once a register-set request of a call has been answered with
\* "unsupported" (EIO), gum_is_regset_supported is false and that call has
\* gone on to the legacy request: it stands at the legacy request or has
\* made it.
C33_Claim ==
  \A s \in Sessions :
    "regset" \in failed[s] =>
      /\ ~gum_is_regset_supported
      /\ hpc[s] \in {"getregs", "setregs"}
           \/ Has(trace[s], "read") \/ Has(trace[s], "write")
      /\ hack[s] = GUM_ACK_FAILED_TO_READ => "read" \in failed[s]

\* the part of C33 that is about the flag alone: it never goes back to true
C33_LatchIsOneWay ==
  [][~gum_is_regset_supported => ~gum_is_regset_supported']_vars


\* C40: a call whose clone failed goes from the clone to beach and returns
\* failure: it does not enter gum_acquire_dumpability, sends nothing, does
\* not wait on the channel, does not invoke the callback, and has released
\* the stack page, the TLS page and both descriptors when it has returned.
C40_Claim ==
  \A s \in Sessions :
    "clone" \in failed[s] =>
      /\ ppc[s] \in {"beach", "returned"}
      /\ ~success[s]
      /\ ~Has(trace[s], "cb_start")
      /\ toHelper[s] = <<>>
      /\ ppc[s] = "returned" => resources[s] = {}


(***************************************************************************)
(* Commit, the free list and the lists of batches                          *)
(***************************************************************************)

\* C34: a commit that returns on a platform without RWX pages leaves the
\* free list empty, having dropped one reference of its batch for every
\* slice it discarded, and the first allocation made after it that yields a
\* slice yields slice 0 of a fresh batch; a commit on a platform with RWX
\* pages leaves the free list and the reference counts as they were.
C34_CommitDropsFreeList ==
  [][/\ (commits' # NULL /\ ~crashed') =>
          IF rwx_supported
          THEN free_slices' = free_slices /\ pages' = pages
          ELSE /\ free_slices' = <<>>
               /\ \A b \in 1..MaxBatches :
                    pages[b].live =>
                      /\ pages'[b].ref_count =
                           pages[b].ref_count - Cardinality(FreeOf(b))
                      /\ pages'[b].live <=> pages'[b].ref_count > 0
     /\ (commits # NULL /\ ~crashed /\ ~rwx_supported /\ result' # NULL) =>
          /\ result'.fresh
          /\ result'.slice => n_batches' = n_batches + 1
    ]_vars

\* after a commit without RWX pages that discarded the second slice of
\* batch 1, whose first slice is still held, the next allocation was served
\* from a fresh batch
C34_Witness ==
  /\ ~rwx_supported
  /\ slices_per_page = 2
  /\ n_batches = 2
  /\ result # NULL /\ result.slice /\ result.fresh
  /\ held = {[pages |-> 1, index |-> 0], [pages |-> 2, index |-> 0]}
  /\ pages[1].live /\ pages[1].ref_count = 1
  /\ free_slices = <<[pages |-> 2, index |-> 1]>>
  /\ uncommitted_pages = {2}
  /\ dirty_pages = {2}


\* C35: with RWX pages no batch is ever on the uncommitted list; without
\* them every commit leaves the uncommitted list empty, so that a batch is
\* realized and mapped by the first commit after its creation and by no
\* commit after that one.
C35_Claim ==
  IF rwx_supported
  THEN uncommitted_pages = {}
  ELSE commits # NULL =>
         /\ uncommitted_pages = {}
         /\ commits.again => commits.realized = {}


\* C36: without RWX pages the dirty set and the uncommitted list hold only
\* batches whose memory has not been released, so that a commit, which
\* realizes, maps and flushes what these two hold, finds no released batch.
C36_Claim ==
  ~rwx_supported =>
    \A b \in dirty_pages \cup uncommitted_pages : pages[b].live


\* C38: on either platform the ref_count of a live batch is the number of
\* its slices callers hold plus the number of its slices on the free list; a
\* batch that was created is live exactly while that sum is not zero; and
\* every slice on the free list belongs to a live batch.
C38_RefCountAndRelease ==
  /\ \A b \in 1..n_batches :
       LET sum == Cardinality(HeldOf(b)) + Cardinality(FreeOf(b))
       IN /\ pages[b].live => pages[b].ref_count = sum
          /\ pages[b].live <=> sum > 0
  /\ \A i \in 1..Len(free_slices) :
       /\ free_slices[i].pages \in 1..n_batches
       /\ pages[free_slices[i].pages].live

\* with RWX pages: a slice that was given back is on the free list and still
\* counted, next to a slice that is held
C38_Witness ==
  /\ rwx_supported
  /\ slices_per_page = 2
  /\ n_batches = 1
  /\ pages[1].live /\ pages[1].ref_count = 2
  /\ held = {[pages |-> 1, index |-> 1]}
  /\ free_slices = <<[pages |-> 1, index |-> 0]>>


(***************************************************************************)
(* Dispatchers and their caves                                             *)
(***************************************************************************)

\* C39: no two dispatchers of the list are at the same cave address, and the
\* original_data of every dispatcher, of the one being created too, is what
\* the cave held before any dispatcher was written to it: a cave that hosts
\* a dispatcher is not taken for a second one.
C39_OneDispatcherPerCave ==
  /\ \A i, j \in 1..Len(dispatchers) :
       dispatchers[i].address = dispatchers[j].address => i = j
  /\ \A i \in 1..Len(dispatchers) :
       dispatchers[i].original_data =
         cave_initial[RangeOf(dispatchers[i].address)]
  /\ dpc = "dispatcher_new" =>
       /\ \A i \in 1..Len(dispatchers) :
            dispatchers[i].address # dcall.dispatcher.address
       /\ dcall.dispatcher.original_data =
            cave_initial[RangeOf(dcall.dispatcher.address)]

\* in a build that writes nothing to the cave, a second deflector was
\* requested in the range of a dispatcher whose cave still reads as empty,
\* and was registered with that dispatcher
C39_Witness ==
  /\ ~have_arm
  /\ Len(dispatchers) = 1
  /\ Len(dispatchers[1].callers) = 2
  /\ cave_bytes[RangeOf(dispatchers[1].address)] = "zero"
  /\ dresult # NULL /\ dresult.deflector /\ dresult.reused


\* C37: when the allocator is freed with deflectors still registered, the
\* teardown of every dispatcher (restoring the cave, releasing the original
\* bytes, the thunk and the dispatcher record) is run exactly once.
C37_Claim ==
  teardowns # NULL =>
    \A r \in RangeIds : teardowns[r] <= 1


====
